---- MODULE Spec2Model ----
(***************************************************************************)
(* WATA trader: the RabbitMQ consumer of src/main.py, the services of      *)
(* src/trade/api_actions.py it drives (TradingOrchestrator,                *)
(* PositionService, OrderService, PerformanceMonitor), the rule check of   *)
(* src/trade/rules.py and the DuckDB ledger of src/database/__init__.py.   *)
(*                                                                         *)
(* One process consumes the queue "trading-action".  The handling of one   *)
(* message is a sequence of steps; every step is one call to the broker or *)
(* to the ledger, and pc is the place of the consumer thread in the code.  *)
(* The broker is an environment that fills orders and closes positions on  *)
(* its own, between any two steps.                                         *)
(***************************************************************************)
EXTENDS Integers, Sequences, FiniteSets, TLC

\* ---------------------------------------------------------------- bounds
MaxMsgs == 3        \* messages delivered to the consumer in one run
MaxOrders == 2      \* opening orders the broker accepts in one run

\* ------------------------------------------------------ program constants
DEFAULT_RETRY_ATTEMPTS == 5

Msgs == 1..MaxMsgs
Ids == 1..MaxOrders     \* order ids; the position an order opens carries its id

\* The values of the "action" field that the schema admits, and the two
\* kinds of message that never reach a handler.
TradeActions == {"long", "short"}
CloseActions == {"close-long", "close-short", "close-position"}
SchemaActions == TradeActions \cup CloseActions \cup
                 {"check_positions_on_saxo_api", "daily_stats", "ping_saxo_api"}
Bodies == SchemaActions \cup {"undecodable", "schema_invalid"}

\* Exception classes of src/trade/exceptions.py; "Unexpected" is any other
\* Exception (duckdb errors, TypeError, the bare Exception of get_token).
ReadErrors == {"SaxoApi", "ApiRequest", "Token", "Unexpected"}
OrderErrors == {"OrderPlacement", "InsufficientFunds", "ApiRequest", "Token", "Unexpected"}
FindTurboErrors == {"NoTurbos", "NoMarket", "ValueError"} \cup ReadErrors

\* PositionBase.Status as the broker may report it for a position of the
\* open list; "absent" is a record without the field.
BrokerStatus == {"Open", "absent", "Closing"}

VARIABLES
    running,        \* the process has not called sys.exit
    exitCode,       \* the argument of sys.exit, 0 while running
    pc,             \* place of the consumer thread
    delivered,      \* number of messages delivered; the current delivery tag
    action,         \* body of the current message
    ackCount,       \* basic_ack calls per delivery tag
    active,         \* delivery tags whose callback is executing
    raised,         \* exception that left the handler body, "none" if none
    passed,         \* steps of the current trade signal that succeeded
    ledgerOrders,   \* order ids of turbo_data_order
    ledgerPos,      \* turbo_data_position: id -> [status, action, order]
    inserts,        \* rows inserted by the current message, in order
    corrupted,      \* database_corrupted.txt exists
    bOrders,        \* broker: opening order id -> state
    bPos,           \* broker: position id -> list it appears in
    bCan,           \* broker: PositionBase.CanBeClosed of the position
    closeOrders,    \* broker: closing orders accepted, per position
    cancels,        \* cancel_order calls: sequence of [order, result]
    placed,         \* execute_trade_signal: validated_order id, 0 if None
    confirmed,      \* execute_trade_signal: confirmed_position id, 0 if None
    polls,          \* _find_position_attempt calls of the current search
    pnf,            \* fields of the PositionNotFoundException raised last
    pending,        \* exception caught by execute_trade_signal, to re-raise
    todo,           \* positions a loop still has to visit
    snap,           \* position ids of the open-positions response in use
    filter,         \* action_filter of close_managed_positions_by_criteria
    initiated,      \* closed_initiated_count
    errors,         \* errors_count of the running monitor call
    syncErrors,     \* sync_errors of handle_check_positions
    syncRun,        \* sync_db_positions_with_api: how it returned
    closeLog,       \* closing orders submitted while handling this message
    evalLog,        \* check_all_positions_performance: positions evaluated
    db_updates,     \* check_all_positions_performance: max updates collected
    ft,             \* InstrumentService.find_turbos: the locals of one call
    svc             \* a service method called on its own: arguments, outcome

mqVars == <<running, exitCode, pc, delivered, action, ackCount, active, raised>>
ledgerVars == <<ledgerOrders, ledgerPos, inserts, corrupted>>
brokerVars == <<bOrders, bPos, bCan, closeOrders, cancels>>
tradeVars == <<passed, placed, confirmed, polls, pnf, pending>>
monitorVars == <<todo, snap, filter, initiated, errors, syncErrors, syncRun, closeLog,
                 evalLog, db_updates>>
handlerVars == <<mqVars, ledgerVars, brokerVars, tradeVars, monitorVars>>
vars == <<handlerVars, ft, svc>>

\* max is position_max_performance_percent in hundredths of a percent;
\* closeWrites counts the updates that wrote the status Closed and the
\* close_* columns of the row.
NoPos == [status |-> "none", action |-> "none", order |-> 0, max |-> 0, closeWrites |-> 0]
\* sync_db_positions_with_api has not returned: calls is "ok" once every
\* call it made returned, "failed" when a broker read raised; updates are the
\* positions of updates_for_db; closedAtStart are the ledger-open positions
\* that were in the broker's closed list when it started
NoSync == [calls |-> "none", updates |-> {}, closedAtStart |-> {}]

NoPnf == [order |-> 0, attempted |-> FALSE, succeeded |-> FALSE]

\* find_turbos has not been called: no response, no attempt, nothing selected
NoFt == [pc |-> "idle", keywords |-> "none", bid_retries |-> 0,
         bid_data_missing |-> TRUE, response_infoprices |-> <<>>,
         attempts |-> <<>>, raised |-> "none", selected |-> 0,
         response_price_sub |-> "none",
     result |-> [source |-> "none", latest_bid |-> 0, subscription |-> FALSE]]

\* no service method is being called on its own
NoCall == [op |-> "none"]

\* the consumer after construction, find_turbos not called
HandlersInit ==
    /\ running = TRUE /\ exitCode = 0 /\ pc = "idle"
    /\ delivered = 0 /\ action = "none"
    /\ ackCount = [m \in Msgs |-> 0]
    /\ active = {} /\ raised = "none" /\ passed = {}
    /\ ledgerOrders = {} /\ ledgerPos = [p \in Ids |-> NoPos]
    /\ inserts = <<>> /\ corrupted = FALSE
    /\ bOrders = [o \in Ids |-> "none"]
    /\ bPos = [p \in Ids |-> "none"]
    /\ bCan = [p \in Ids |-> FALSE]
    /\ closeOrders = [p \in Ids |-> 0]
    /\ cancels = <<>>
    /\ placed = 0 /\ confirmed = 0 /\ polls = 0 /\ pnf = NoPnf /\ pending = "none"
    /\ todo = <<>> /\ snap = {} /\ filter = "none"
    /\ initiated = 0 /\ errors = 0 /\ syncErrors = 0
    /\ syncRun = NoSync
    /\ closeLog = <<>>
    /\ evalLog = {} /\ db_updates = {}
    /\ ft = NoFt

Init == HandlersInit /\ svc = NoCall

\* ------------------------------------------------------------- helpers
RECURSIVE SeqOf(_)
\* The rows of a SELECT, in insertion order (ids grow with insertion).
SeqOf(S) ==
    IF S = {} THEN <<>>
    ELSE LET m == CHOOSE x \in S : \A y \in S : x <= y
         IN <<m>> \o SeqOf(S \ {m})
\* faulty variant: basic_ack counted twice
AckTwice == ackCount' = [ackCount EXCEPT ![delivered] = @ + 2]

\* basic_ack on the current delivery tag
Ack == ackCount' = [ackCount EXCEPT ![delivered] = @ + 1]

\* the step goes on inside the handler
Goto(l) ==
    /\ pc' = l
    /\ UNCHANGED <<running, exitCode, delivered, action, ackCount, active, raised>>

\* the handler acknowledges and returns to start_consuming
Finish ==
    /\ Ack
    /\ pc' = "idle"
    /\ active' = active \ {delivered}
    /\ UNCHANGED <<running, exitCode, delivered, action, raised>>
\* faulty variant: DatabaseOperationException falls to the generic clause
ExitCodeOfGeneric(e) ==
    CASE e \in {"Config", "Token"} -> 2
      [] e = "PositionNotFound" -> 3
      [] e = "PositionClose" -> 4
      [] e \in {"SaxoApi", "OrderPlacement", "ApiRequest"} -> 5
      [] e \in {"ValueError", "WebSocket"} -> 0
      [] OTHER -> 1

\* ------------------------------------------------- error handling, main.py
\* The except ladder of callback: the exit code given to handle_exception,
\* 0 where the ladder calls it with is_critical=False.  No ValueError of
\* the program carries the word CRITICAL, so the exit-6 branch is dead.
ExitCodeOf(e) ==
    CASE e \in {"Config", "Token"} -> 2
      [] e = "Database" -> 12
      [] e = "PositionNotFound" -> 3
      [] e = "PositionClose" -> 4
      [] e \in {"SaxoApi", "OrderPlacement", "ApiRequest"} -> 5
      [] e \in {"ValueError", "WebSocket"} -> 0
      [] OTHER -> 1

handle_exception(is_critical, exit_code) ==
    IF is_critical
    THEN /\ running' = FALSE
         /\ exitCode' = exit_code
         /\ pc' = "exited"
         /\ UNCHANGED <<ackCount, active>>
    ELSE /\ Ack
         /\ pc' = "idle"
         /\ active' = active \ {delivered}
         /\ UNCHANGED <<running, exitCode>>
\* faulty variants: DatabaseOperationException handled like a set-up issue;
\* OrderPlacementError not handled by handle_trading_action
TradingHandledAndDatabase ==
    {"RuleViolation", "NoMarket", "NoTurbos", "InsufficientFunds", "OrderPlacement",
     "ValueError", "Database"}
TradingHandledNoOrderPlacement ==
    {"RuleViolation", "NoMarket", "NoTurbos", "InsufficientFunds", "ValueError"}

\* Exception classes handle_trading_action catches and acknowledges.
TradingHandled ==
    {"RuleViolation", "NoMarket", "NoTurbos", "InsufficientFunds",
     "OrderPlacement", "ValueError"}

\* Exception e leaves the body of the handler of the current message:
\* handle_trading_action acknowledges the classes it handles, every other
\* handler re-raises, and what is left reaches the ladder of callback.
Throw(e) ==
    /\ raised' = e
    /\ UNCHANGED <<delivered, action>>
    /\ IF action \in TradeActions /\ e \in TradingHandled
       THEN handle_exception(FALSE, 0)
       ELSE handle_exception(ExitCodeOf(e) # 0, ExitCodeOf(e))
\* faulty variant: a delivery is dispatched while a handler is running
ConsumerAlwaysReady == TRUE

\* ------------------------------------------------------- callback, main.py
\* start_consuming hands the next message to callback once the previous
\* call has returned.
ConsumerReady == pc = "idle"
\* faulty variant: a trading signal closes the managed positions before
\* its rule checks
EntryCloseFirst(body) ==
    CASE body = "undecodable" -> "decode_error"
      [] body = "schema_invalid" -> "validation_error"
      [] body = "ping_saxo_api" -> "unknown_action"
      [] body \in TradeActions -> "cm_db"
      [] body \in CloseActions -> "cm_db"
      [] body = "check_positions_on_saxo_api" -> "perf_db"
      [] OTHER -> "daily_stats"

\* faulty variant: a trading signal goes straight to the order
EntryUnchecked(body) ==
    CASE body = "undecodable" -> "decode_error"
      [] body = "schema_invalid" -> "validation_error"
      [] body = "ping_saxo_api" -> "unknown_action"
      [] body \in TradeActions -> "place_market_order"
      [] body \in CloseActions -> "cm_db"
      [] body = "check_positions_on_saxo_api" -> "perf_db"
      [] OTHER -> "daily_stats"

Entry(body) ==
    CASE body = "undecodable" -> "decode_error"
      [] body = "schema_invalid" -> "validation_error"
      [] body = "ping_saxo_api" -> "unknown_action"
      [] body \in TradeActions -> "rules"
      [] body \in CloseActions -> "cm_db"
      [] body = "check_positions_on_saxo_api" -> "perf_db"
      [] OTHER -> "daily_stats"

FilterOf(body) ==
    CASE body = "close-long" -> "long"
      [] body = "close-short" -> "short"
      [] OTHER -> "all"

callback(body) ==
    /\ running /\ ConsumerReady /\ delivered < MaxMsgs
    /\ delivered' = delivered + 1
    /\ action' = body
    /\ active' = active \cup {delivered + 1}
    /\ pc' = Entry(body)
    /\ raised' = "none"
    /\ passed' = {} /\ placed' = 0 /\ confirmed' = 0 /\ polls' = 0
    /\ pnf' = NoPnf /\ pending' = "none" /\ inserts' = <<>>
    /\ todo' = <<>> /\ snap' = {} /\ filter' = FilterOf(body)
    /\ initiated' = 0 /\ errors' = 0 /\ syncErrors' = 0
    /\ syncRun' = NoSync
    /\ closeLog' = <<>>
    /\ evalLog' = {} /\ db_updates' = {}
    /\ UNCHANGED <<running, exitCode, ackCount, ledgerOrders, ledgerPos,
                   corrupted, brokerVars>>
    /\ UNCHANGED <<ft, svc>>

\* json decoding failed: the message is acknowledged and dropped
decode_error ==
    /\ pc = "decode_error"
    /\ Finish
    /\ UNCHANGED <<ledgerVars, brokerVars, tradeVars, monitorVars>>
    /\ UNCHANGED <<ft, svc>>

handle_validation_error ==
    /\ pc = "validation_error"
    /\ Finish
    /\ UNCHANGED <<ledgerVars, brokerVars, tradeVars, monitorVars>>
    /\ UNCHANGED <<ft, svc>>

handle_unknown_action ==
    /\ pc = "unknown_action"
    /\ Finish
    /\ UNCHANGED <<ledgerVars, brokerVars, tradeVars, monitorVars>>
    /\ UNCHANGED <<ft, svc>>

\* Every database error inside is caught and acknowledged: the ledger never
\* raises DatabaseOperationException itself.
handle_daily_stats ==
    /\ pc = "daily_stats"
    /\ Finish
    /\ UNCHANGED <<ledgerVars, brokerVars, tradeVars, monitorVars>>
    /\ UNCHANGED <<ft, svc>>
\* faulty variant: the duplicate-signal rule never fires
same_signal_never(a) == FALSE

\* -------------------------------------------------------- rules.py
\* TRUE when the ledger holds an open position of the signal's direction,
\* that is when check_if_open_position_is_same_signal raises.
check_if_open_position_is_same_signal(a) ==
    \E p \in Ids : ledgerPos[p].status = "Open" /\ ledgerPos[p].action = a

\* get_open_positions_ids / get_open_positions_ids_actions
get_positions_ids_any_status == {p \in Ids : ledgerPos[p].status # "none"}
get_open_positions_ids == {p \in Ids : ledgerPos[p].status = "Open"}

\* handle_trading_action, step 1: timestamp, market hours, indice, the
\* duplicate-direction guard and the daily profit cap.  The clock and the
\* configuration decide env; the ledger decides the guard.
RuleChecks ==
    /\ pc = "rules"
    /\ \E env \in {"pass", "violation", "valueerror"} :
         IF env = "valueerror"
         THEN Throw("ValueError") /\ UNCHANGED passed
         ELSE IF env = "violation" \/ check_if_open_position_is_same_signal(action)
              THEN Throw("RuleViolation") /\ UNCHANGED passed
              ELSE Goto("cm_db") /\ passed' = {"rules"}
    /\ UNCHANGED <<ledgerVars, brokerVars, monitorVars,
                   placed, confirmed, polls, pnf, pending>>
    /\ UNCHANGED <<ft, svc>>

\* ------------------------------- close_managed_positions_by_criteria
\* the call returns to handle_trading_action (step 3 follows) or to
\* handle_close_action (which acknowledges)
CmReturn == IF action \in TradeActions THEN Goto("find_turbos") ELSE Finish

\* 1. the open positions of the ledger
cm_db ==
    /\ pc = "cm_db"
    /\ \E ok \in BOOLEAN :
         IF ~ok THEN Throw("Unexpected") /\ UNCHANGED todo
         ELSE IF get_open_positions_ids = {}
              THEN CmReturn /\ UNCHANGED todo
              ELSE Goto("cm_api") /\ todo' = SeqOf(get_open_positions_ids)
    /\ UNCHANGED <<ledgerVars, brokerVars, tradeVars,
                   snap, filter, initiated, errors, syncErrors, syncRun, closeLog,
                   evalLog, db_updates>>
    /\ UNCHANGED <<ft, svc>>

\* PositionService.get_open_positions: the ids of the broker's open list
get_open_positions == {p \in Ids : bPos[p] = "open"}

\* 2. the open positions of the broker
cm_api ==
    /\ pc = "cm_api"
    /\ \E r \in {"ok"} \cup ReadErrors :
         IF r = "ok"
         THEN Goto("cm_loop") /\ snap' = get_open_positions
         ELSE Throw(r) /\ UNCHANGED snap
    /\ UNCHANGED <<ledgerVars, brokerVars, tradeVars,
                   todo, filter, initiated, errors, syncErrors, syncRun, closeLog,
                   evalLog, db_updates>>
    /\ UNCHANGED <<ft, svc>>

CanBeClosedAlways(p) == TRUE
\* PositionBase.get("CanBeClosed", False) of the broker's record
CanBeClosed(p) == bCan[p]

CmSkipsUnfiltered(p) == p \notin snap \/ ~CanBeClosed(p)

\* the position is skipped by the loop of step 3
CmSkips(p) ==
    \/ filter # "all" /\ ledgerPos[p].action # filter
    \/ p \notin snap
    \/ ~CanBeClosed(p)

\* 3. one turn of the loop up to the closing order
\* PositionBase.Amount of a position opened by execute_trade_signal: the
\* amount of its opening order, which _calculate_bid_amount keeps above 0.
PositionAmount(p) == 1

\* src.saxo_openapi.contrib.orders: the direction that goes with a signed
\* amount, and its opposite.
direction_from_amount(amount) == IF amount > 0 THEN "Buy" ELSE "Sell"
direction_invert(direction) == IF direction = "Buy" THEN "Sell" ELSE "Buy"

\* MarketOrder(Uic, AssetType, Amount): the order body carries the direction
\* of the signed amount (tests/test_order_service.py: Amount 100 gives Buy).
MarketOrder(amount) ==
    [Amount |-> IF amount > 0 THEN amount ELSE 0 - amount,
     BuySell |-> IF amount > 0 THEN "Buy" ELSE "Sell"]

\* place_market_order builds the request from uic, asset_type and amount;
\* buy_sell only appears in its log line.
OrderRequest(amount, buy_sell) == MarketOrder(amount)

\* The closing order of position p as the two closure loops submit it.
ClosingOrder(p, accepted) ==
    LET buy_sell == direction_invert(direction_from_amount(PositionAmount(p)))
    IN [pos |-> p, buy_sell |-> buy_sell,
        sent |-> OrderRequest(PositionAmount(p), buy_sell).BuySell,
        accepted |-> accepted]

cm_loop ==
    /\ pc = "cm_loop"
    /\ IF todo = <<>>
       THEN CmReturn /\ UNCHANGED <<todo, closeOrders, initiated, errors, closeLog>>
       ELSE LET p == Head(todo) IN
            IF CmSkips(p)
            THEN /\ Goto("cm_loop") /\ todo' = Tail(todo)
                 /\ UNCHANGED <<closeOrders, initiated, errors, closeLog>>
            ELSE \E r \in {"ok"} \cup OrderErrors :
                   /\ closeLog' = Append(closeLog, ClosingOrder(p, r = "ok"))
                   /\ IF r = "ok"
                      THEN /\ Goto("cm_fetch")
                           /\ closeOrders' = [closeOrders EXCEPT ![p] = @ + 1]
                           /\ initiated' = initiated + 1
                           /\ UNCHANGED <<todo, errors>>
                      ELSE /\ Goto("cm_loop") /\ todo' = Tail(todo)
                           /\ errors' = errors + 1
                           /\ UNCHANGED <<closeOrders, initiated>>
    /\ UNCHANGED <<ledgerVars, tradeVars, bOrders, bPos, bCan, cancels,
                   snap, filter, syncErrors, syncRun,
                   evalLog, db_updates>>
    /\ UNCHANGED <<ft, svc>>

\* _fetch_and_update_closed_position_in_db: r is the outcome of
\* get_closed_positions, dbok that of update_turbo_position_data.
\* update_turbo_position_data with the data of a closure: position_status
\* Closed together with the close_* columns
close_update(row) == [row EXCEPT !.status = "Closed", !.closeWrites = @ + 1]

FoundClosedUnchecked(p, r) == r = "ok"
FoundClosed(p, r) == r = "ok" /\ bPos[p] = "closed"
UpdateSucceeds(p, r, dbok) == FoundClosed(p, r) /\ dbok

fetch_and_update_closed_position_in_db(p, r, dbok) ==
    /\ ledgerPos' = IF UpdateSucceeds(p, r, dbok)
                    THEN [ledgerPos EXCEPT ![p] = close_update(@)]
                    ELSE ledgerPos
    /\ corrupted' = (corrupted \/ (FoundClosed(p, r) /\ ~dbok))
    /\ errors' = IF UpdateSucceeds(p, r, dbok) THEN errors ELSE errors + 1

\* 3. the immediate ledger update after the closing order
cm_fetch ==
    /\ pc = "cm_fetch"
    /\ \E r \in {"ok"} \cup ReadErrors, dbok \in BOOLEAN :
         fetch_and_update_closed_position_in_db(Head(todo), r, dbok)
    /\ todo' = Tail(todo)
    /\ Goto("cm_loop")
    /\ UNCHANGED <<ledgerOrders, inserts, brokerVars, tradeVars,
                   snap, filter, initiated, syncErrors, syncRun, closeLog,
                   evalLog, db_updates>>
    /\ UNCHANGED <<ft, svc>>

\* ------------------------------ TradingOrchestrator.execute_trade_signal
\* a step of the try block raised e: control passes to the except clauses
Fail(e) == Goto("except_clause") /\ pending' = e

\* 1. InstrumentService.find_turbos
find_turbos ==
    /\ pc = "find_turbos"
    /\ \E r \in {"ok"} \cup FindTurboErrors :
         IF r = "ok"
         THEN Goto("get_spending_power") /\ passed' = passed \cup {"turbo"}
              /\ UNCHANGED pending
         ELSE Fail(r) /\ UNCHANGED passed
    /\ UNCHANGED <<ledgerVars, brokerVars, monitorVars,
                   placed, confirmed, polls, pnf>>
    /\ UNCHANGED <<ft, svc>>

\* 2. PositionService.get_spending_power
get_spending_power ==
    /\ pc = "get_spending_power"
    /\ \E r \in {"ok"} \cup ReadErrors :
         IF r = "ok"
         THEN Goto("calculate_bid_amount") /\ passed' = passed \cup {"spending"}
              /\ UNCHANGED pending
         ELSE Fail(r) /\ UNCHANGED passed
    /\ UNCHANGED <<ledgerVars, brokerVars, monitorVars,
                   placed, confirmed, polls, pnf>>
    /\ UNCHANGED <<ft, svc>>

\* 3. _calculate_bid_amount: an amount > 0, InsufficientFundsException, or
\* ValueError on an unusable ask price
calculate_bid_amount ==
    /\ pc = "calculate_bid_amount"
    /\ \E r \in {"ok", "InsufficientFunds", "ValueError"} :
         IF r = "ok"
         THEN Goto("place_market_order") /\ passed' = passed \cup {"sizing"}
              /\ UNCHANGED pending
         ELSE Fail(r) /\ UNCHANGED passed
    /\ UNCHANGED <<ledgerVars, brokerVars, monitorVars,
                   placed, confirmed, polls, pnf>>
    /\ UNCHANGED <<ft, svc>>

\* the id the broker gives the next opening order
NextOrderId == CHOOSE o \in Ids : bOrders[o] = "none" /\ \A q \in Ids : q < o => bOrders[q] # "none"

\* 4. OrderService.place_market_order (Buy)
place_market_order ==
    /\ pc = "place_market_order"
    /\ \E r \in {"ok"} \cup OrderErrors :
         IF r = "ok"
         THEN /\ \E o \in Ids : bOrders[o] = "none"
              /\ placed' = NextOrderId
              /\ bOrders' = [bOrders EXCEPT ![NextOrderId] = "working"]
              /\ Goto("find_position")
              /\ UNCHANGED pending
         ELSE Fail(r) /\ UNCHANGED <<placed, bOrders>>
    /\ UNCHANGED <<ledgerVars, monitorVars, bPos, bCan, closeOrders, cancels,
                   passed, confirmed, polls, pnf>>
    /\ UNCHANGED <<ft, svc>>

\* the open position whose SourceOrderId is the order, 0 if there is none
PositionOfOrder(o) == IF bOrders[o] = "filled" /\ bPos[o] = "open" THEN o ELSE 0

\* 5. one call of _find_position_attempt under its tenacity decorator: the
\* position, another attempt, RetryError after the last attempt, or the
\* broker error that find_position_by_order_id_with_retry lets through
find_position_attempt ==
    /\ pc = "find_position"
    /\ polls' = polls + 1
    /\ \E r \in {"ok"} \cup ReadErrors :
         IF r # "ok"
         THEN Fail(r) /\ UNCHANGED confirmed
         ELSE IF PositionOfOrder(placed) # 0
              THEN /\ Goto("insert_order") /\ confirmed' = PositionOfOrder(placed)
                   /\ UNCHANGED pending
              ELSE /\ Goto(IF polls + 1 >= DEFAULT_RETRY_ATTEMPTS
                           THEN "retry_error" ELSE "find_position")
                   /\ UNCHANGED <<confirmed, pending>>
    /\ UNCHANGED <<ledgerVars, brokerVars, monitorVars, passed, placed, pnf>>
    /\ UNCHANGED <<ft, svc>>
\* faulty variant: the cancellation request is never sent
cancel_order_skipped(o, res) ==
    /\ ~res
    /\ UNCHANGED <<bOrders, cancels>>

\* OrderService.cancel_order: True when the broker accepted the request,
\* which it does only for an order still working
cancel_order(o, res) ==
    /\ res => bOrders[o] = "working"
    /\ bOrders' = IF res THEN [bOrders EXCEPT ![o] = "cancelled"] ELSE bOrders
    /\ cancels' = Append(cancels, [order |-> o, result |-> res])

\* find_position_by_order_id_with_retry on RetryError: cancel, then
\* PositionNotFoundException, which execute_trade_signal re-raises
find_position_retry_error ==
    /\ pc = "retry_error"
    /\ \E res \in BOOLEAN :
         /\ cancel_order(placed, res)
         /\ pnf' = [order |-> placed, attempted |-> TRUE, succeeded |-> res]
    /\ Throw("PositionNotFound")
    /\ UNCHANGED <<ledgerVars, monitorVars, bPos, bCan, closeOrders,
                   passed, placed, confirmed, polls, pending>>
    /\ UNCHANGED <<ft, svc>>
\* faulty variant: the except clause never cleans up
CancelsOrphanNever == FALSE

\* faulty variant: the clean-up does not look at confirmed_position
CancelsOrphanAfterConfirmation == placed # 0

\* the condition under which the except clause of execute_trade_signal
\* cancels the order it placed
CancelsOrphan == placed # 0 /\ confirmed = 0

\* except Exception of execute_trade_signal: the clean-up, then the
\* original error again
except_clause ==
    /\ pc = "except_clause"
    /\ IF CancelsOrphan
       THEN \E res \in BOOLEAN : cancel_order(placed, res)
       ELSE UNCHANGED <<bOrders, cancels>>
    /\ Throw(pending)
    /\ UNCHANGED <<ledgerVars, monitorVars, bPos, bCan, closeOrders,
                   passed, placed, confirmed, polls, pnf, pending>>
    /\ UNCHANGED <<ft, svc>>

\* 6. insert_turbo_order_data; a failure becomes DatabaseOperationException
insert_order ==
    /\ pc = "insert_order"
    /\ \E ok \in BOOLEAN :
         IF ok
         THEN /\ ledgerOrders' = ledgerOrders \cup {placed}
              /\ inserts' = Append(inserts, "order")
              /\ Goto("insert_position")
              /\ UNCHANGED pending
         ELSE /\ Fail("Database")
              /\ inserts' = Append(inserts, "order failed")
              /\ UNCHANGED ledgerOrders
    /\ UNCHANGED <<ledgerPos, corrupted, brokerVars, monitorVars,
                   passed, placed, confirmed, polls, pnf>>
    /\ UNCHANGED <<ft, svc>>

\* position_status of the row: the broker's Status, "Open" without one
StatusForDb(st) == IF st = "absent" THEN "Open" ELSE st

\* 6. insert_turbo_open_position_data
insert_position ==
    /\ pc = "insert_position"
    /\ \E ok \in BOOLEAN, st \in BrokerStatus :
         IF ok
         THEN /\ ledgerPos' = [ledgerPos EXCEPT ![confirmed] =
                    [NoPos EXCEPT !.status = StatusForDb(st), !.action = action,
                                  !.order = placed]]
              /\ inserts' = Append(inserts, "position")
              /\ Goto("executed")
              /\ UNCHANGED pending
         ELSE /\ Fail("Database")
              /\ inserts' = Append(inserts, "position failed")
              /\ UNCHANGED ledgerPos
    /\ UNCHANGED <<ledgerOrders, corrupted, brokerVars, monitorVars,
                   passed, placed, confirmed, polls, pnf>>
    /\ UNCHANGED <<ft, svc>>

\* 7. execute_trade_signal returned: handle_trading_action notifies and
\* acknowledges
executed ==
    /\ pc = "executed"
    /\ Finish
    /\ UNCHANGED <<ledgerVars, brokerVars, tradeVars, monitorVars>>
    /\ UNCHANGED <<ft, svc>>

\* ---------------------------------------------------------------- broker
\* the broker fills a working opening order: the position appears
BrokerFill(o) ==
    /\ running /\ bOrders[o] = "working"
    /\ bOrders' = [bOrders EXCEPT ![o] = "filled"]
    /\ bPos' = [bPos EXCEPT ![o] = "open"]
    /\ \E c \in BOOLEAN : bCan' = [bCan EXCEPT ![o] = c]
    /\ UNCHANGED <<mqVars, ledgerVars, tradeVars, monitorVars, closeOrders, cancels>>
    /\ UNCHANGED <<ft, svc>>

\* a position leaves the open list for the closed list (closing order
\* filled, knock-out, manual closure)
BrokerClose(p) ==
    /\ running /\ bPos[p] = "open"
    /\ bPos' = [bPos EXCEPT ![p] = "closed"]
    /\ UNCHANGED <<mqVars, ledgerVars, tradeVars, monitorVars, bOrders, bCan,
                   closeOrders, cancels>>
    /\ UNCHANGED <<ft, svc>>

\* a closed position drops out of the recent closed list
BrokerForget(p) ==
    /\ running /\ bPos[p] = "closed"
    /\ bPos' = [bPos EXCEPT ![p] = "gone"]
    /\ UNCHANGED <<mqVars, ledgerVars, tradeVars, monitorVars, bOrders, bCan,
                   closeOrders, cancels>>
    /\ UNCHANGED <<ft, svc>>

\* ------------------------------------------------ handle_check_positions
stoploss_percent == 0 - 20
max_profit_percent == 60
percent_profit_wanted_per_days == 1

\* Performances and the day's realized percent, in hundredths of a percent
\* (both are rounded to two decimals where they are computed).
Perfs == {stoploss_percent * 100, 0, 110, max_profit_percent * 100}
Todays == {0 - 10, 0}

\* round(x, 2) of the percent n / d hundredths, ties to even
Round2(n, d) ==
    LET q == n \div d
        r == n % d
    IN IF 2 * r < d THEN q
       ELSE IF 2 * r > d THEN q + 1
       ELSE IF q % 2 = 0 THEN q ELSE q + 1

\* potential_today_percent: round((today_profit_factor *
\* position_profit_factor - 1) * 100, 2), in hundredths
potential_today_percent(today, perf) ==
    Round2((10000 + today) * (10000 + perf) - 10000 * 10000, 10000)

close_reason_daily_first(perf, today, read) ==
    IF read /\ potential_today_percent(today, perf) >= percent_profit_wanted_per_days * 100
    THEN "DailyProfit"
    ELSE IF perf <= stoploss_percent * 100 THEN "Stoploss"
    ELSE IF perf >= max_profit_percent * 100 THEN "Takeprofit"
    ELSE "none"

\* the close reason check_all_positions_performance gives a position: the
\* stop-loss test first, then take-profit, then the daily profit target,
\* which is skipped when get_percent_of_the_day raises (read is FALSE)
close_reason(perf, today, read) ==
    IF perf <= stoploss_percent * 100 THEN "Stoploss"
    ELSE IF perf >= max_profit_percent * 100 THEN "Takeprofit"
    ELSE IF read /\ potential_today_percent(today, perf) >= percent_profit_wanted_per_days * 100
         THEN "DailyProfit"
    ELSE "none"

\* get_max_position_percent: the stored maximum, 0.0 while the column is NULL
get_max_position_percent(p) == ledgerPos[p].max

\* check_all_positions_performance: the ledger's open positions
perf_db ==
    /\ pc = "perf_db"
    /\ \E ok \in BOOLEAN :
         IF ~ok THEN Throw("Unexpected") /\ UNCHANGED todo
         ELSE IF get_open_positions_ids = {}
              THEN Goto("sync_db") /\ UNCHANGED todo
              ELSE Goto("perf_api") /\ todo' = SeqOf(get_open_positions_ids)
    /\ UNCHANGED <<ledgerVars, brokerVars, tradeVars,
                   snap, filter, initiated, errors, syncErrors, syncRun, closeLog,
                   evalLog, db_updates>>
    /\ UNCHANGED <<ft, svc>>

\* the broker's open positions; a failure ends the performance check with
\* one error and the handler goes on to the sync
perf_api ==
    /\ pc = "perf_api"
    /\ \E r \in {"ok"} \cup ReadErrors :
         IF r = "ok"
         THEN Goto("perf_eval") /\ snap' = get_open_positions /\ UNCHANGED errors
         ELSE Goto("sync_db") /\ errors' = 1 /\ UNCHANGED snap
    /\ UNCHANGED <<ledgerVars, brokerVars, tradeVars,
                   todo, filter, initiated, syncErrors, syncRun, closeLog,
                   evalLog, db_updates>>
    /\ UNCHANGED <<ft, svc>>

\* the first loop: positions absent at the broker or without a price are
\* skipped; for the others a higher performance than the stored maximum is
\* collected in db_updates and a close reason marks the position for closure.
\* priced: OpenPrice and Bid are there; today: get_percent_of_the_day, which
\* reads the same rows at every turn; read: that call did not raise;
\* ok: no get_max_position_percent call raised.  An evalLog entry says
\* whether the daily test was reached (asked), whether its read returned
\* (read) and with what (today).
perf_eval ==
    /\ pc = "perf_eval"
    /\ LET inApi == {p \in Ids : p \in snap /\ \E i \in 1..Len(todo) : todo[i] = p}
       IN \E perf \in [inApi -> Perfs], priced \in [inApi -> BOOLEAN],
             today \in Todays, read \in [inApi -> BOOLEAN], ok \in BOOLEAN :
            IF ~ok
            THEN Throw("Unexpected") /\ UNCHANGED <<todo, evalLog, db_updates>>
            ELSE LET checked == {p \in inApi : priced[p]}
                     asked(p) == /\ perf[p] > stoploss_percent * 100
                                 /\ perf[p] < max_profit_percent * 100
                 IN /\ evalLog' =
                         {[pos |-> p, perf |-> perf[p],
                           asked |-> asked(p),
                           read |-> asked(p) /\ read[p],
                           today |-> IF asked(p) /\ read[p] THEN today ELSE 0,
                           reason |-> close_reason(perf[p], today, read[p])] :
                          p \in checked}
                    /\ db_updates' =
                         {[pos |-> p, max |-> perf[p]] :
                          p \in {q \in checked : perf[q] > get_max_position_percent(q)}}
                    /\ todo' = SeqOf({p \in checked :
                                 close_reason(perf[p], today, read[p]) # "none"})
                    /\ Goto("perf_close")
    /\ UNCHANGED <<ledgerVars, brokerVars, tradeVars,
                   snap, filter, initiated, errors, syncErrors, syncRun, closeLog>>
    /\ UNCHANGED <<ft, svc>>

\* the second loop: one closing order per marked position that can be closed
perf_close ==
    /\ pc = "perf_close"
    /\ IF todo = <<>>
       THEN Goto("perf_updates") /\ UNCHANGED <<todo, closeOrders, initiated, errors, closeLog>>
       ELSE IF ~CanBeClosed(Head(todo))
            THEN /\ Goto("perf_close") /\ todo' = Tail(todo)
                 /\ UNCHANGED <<closeOrders, initiated, errors, closeLog>>
            ELSE \E r \in {"ok"} \cup OrderErrors :
                   /\ closeLog' = Append(closeLog, ClosingOrder(Head(todo), r = "ok"))
                   /\ IF r = "ok"
                      THEN /\ Goto("perf_fetch")
                           /\ closeOrders' = [closeOrders EXCEPT ![Head(todo)] = @ + 1]
                           /\ initiated' = initiated + 1
                           /\ UNCHANGED <<todo, errors>>
                      ELSE /\ Goto("perf_close") /\ todo' = Tail(todo)
                           /\ errors' = errors + 1
                           /\ UNCHANGED <<closeOrders, initiated>>
    /\ UNCHANGED <<ledgerVars, tradeVars, bOrders, bPos, bCan, cancels,
                   snap, filter, syncErrors, syncRun,
                   evalLog, db_updates>>
    /\ UNCHANGED <<ft, svc>>

perf_fetch ==
    /\ pc = "perf_fetch"
    /\ \E r \in {"ok"} \cup ReadErrors, dbok \in BOOLEAN :
         fetch_and_update_closed_position_in_db(Head(todo), r, dbok)
    /\ todo' = Tail(todo)
    /\ Goto("perf_close")
    /\ UNCHANGED <<ledgerOrders, inserts, brokerVars, tradeVars,
                   snap, filter, initiated, syncErrors, syncRun, closeLog,
                   evalLog, db_updates>>
    /\ UNCHANGED <<ft, svc>>

max_performance_update_reopens(row, value) ==
    [row EXCEPT !.max = value, !.status = "Open"]

\* update_turbo_position_data with {"position_max_performance_percent": value}
max_performance_update(row, value) == [row EXCEPT !.max = value]

\* the last loop of check_all_positions_performance: the collected maximum
\* updates are written, whatever the closures did in between; failed holds
\* the positions whose update raised, each one more error.  The call then
\* returns and its locals are gone.
perf_updates ==
    /\ pc = "perf_updates"
    /\ \E failed \in SUBSET {u.pos : u \in db_updates} :
         /\ ledgerPos' = [p \in Ids |->
               IF \E u \in db_updates : u.pos = p /\ p \notin failed
               THEN max_performance_update(ledgerPos[p],
                        (CHOOSE u \in db_updates : u.pos = p).max)
               ELSE ledgerPos[p]]
         /\ errors' = errors + Cardinality(failed)
    /\ evalLog' = {} /\ db_updates' = {}
    /\ Goto("sync_db")
    /\ UNCHANGED <<ledgerOrders, inserts, corrupted, brokerVars, tradeVars,
                   todo, snap, filter, initiated, syncErrors, syncRun, closeLog>>
    /\ UNCHANGED <<ft, svc>>

\* sync_db_positions_with_api: the ledger's open positions
sync_db ==
    /\ pc = "sync_db"
    /\ \E ok \in BOOLEAN :
         IF ~ok THEN Throw("Unexpected") /\ UNCHANGED <<todo, syncRun>>
         ELSE IF get_open_positions_ids = {}
              THEN /\ Goto("check_done") /\ todo' = <<>>
                   /\ syncRun' = [NoSync EXCEPT !.calls = "ok"]
              ELSE /\ Goto("sync_api") /\ todo' = SeqOf(get_open_positions_ids)
                   /\ syncRun' = [NoSync EXCEPT !.closedAtStart =
                          {p \in get_open_positions_ids : bPos[p] = "closed"}]
    /\ UNCHANGED <<ledgerVars, brokerVars, tradeVars,
                   snap, filter, initiated, errors, syncErrors, closeLog,
                   evalLog, db_updates>>
    /\ UNCHANGED <<ft, svc>>

\* faulty variant: every ledger-open position is a candidate
potential_closed_all(open) == {p \in Ids : ledgerPos[p].status = "Open"}

\* ledger-open positions missing from the broker's open list
potential_closed_in_db(open) == {p \in get_open_positions_ids : p \notin open}

\* the broker's open positions; on a failure, and when every ledger-open
\* position is among them, the sync returns no update
sync_api ==
    /\ pc = "sync_api"
    /\ \E r \in {"ok"} \cup ReadErrors :
         IF r = "ok"
         THEN /\ snap' = get_open_positions
              /\ IF potential_closed_in_db(get_open_positions) # {}
                 THEN /\ Goto("sync_closed")
                      /\ todo' = SeqOf(potential_closed_in_db(get_open_positions))
                      /\ UNCHANGED syncRun
                 ELSE /\ Goto("check_done") /\ todo' = <<>>
                      /\ syncRun' = [syncRun EXCEPT !.calls = "ok"]
         ELSE /\ Goto("check_done") /\ todo' = <<>>
              /\ syncRun' = [syncRun EXCEPT !.calls = "failed"]
              /\ UNCHANGED snap
    /\ UNCHANGED <<ledgerVars, brokerVars, tradeVars,
                   filter, initiated, errors, syncErrors, closeLog,
                   evalLog, db_updates>>
    /\ UNCHANGED <<ft, svc>>

\* faulty variant: positions no longer listed count as closed
api_closed_map_stale == {p \in Ids : bPos[p] \in {"closed", "gone"}}

\* the positions of api_closed_map: the broker's recent closed positions by
\* OpeningPositionId
api_closed_map =={p \in Ids : bPos[p] = "closed"}

\* faulty variant: no candidate is ever matched
updates_for_db_none(candidates) == {}

\* the updates_for_db of the sync: the candidates found in api_closed_map
updates_for_db(candidates) == {p \in candidates : p \in api_closed_map}

\* the broker's recent closed positions matched with the candidates
sync_closed ==
    /\ pc = "sync_closed"
    /\ \E r \in {"ok"} \cup ReadErrors :
         IF r = "ok"
         THEN /\ todo' = SeqOf(updates_for_db({todo[i] : i \in 1..Len(todo)}))
              /\ syncRun' = [syncRun EXCEPT !.calls = "ok",
                     !.updates = updates_for_db({todo[i] : i \in 1..Len(todo)})]
         ELSE /\ todo' = <<>>
              /\ syncRun' = [syncRun EXCEPT !.calls = "failed"]
    /\ Goto("sync_apply")
    /\ UNCHANGED <<ledgerVars, brokerVars, tradeVars,
                   snap, filter, initiated, errors, syncErrors, closeLog,
                   evalLog, db_updates>>
    /\ UNCHANGED <<ft, svc>>

\* handle_check_positions step 3: one ledger update per sync result
sync_apply ==
    /\ pc = "sync_apply"
    /\ IF todo = <<>>
       THEN Goto("check_done") /\ UNCHANGED <<todo, ledgerPos, syncErrors, syncRun, closeLog>>
       ELSE /\ Goto("sync_apply") /\ todo' = Tail(todo)
            /\ \E dbok \in BOOLEAN :
                 IF dbok
                 THEN /\ ledgerPos' = [ledgerPos EXCEPT ![Head(todo)] = close_update(@)]
                      /\ UNCHANGED syncErrors
                 ELSE syncErrors' = syncErrors + 1 /\ UNCHANGED ledgerPos
    /\ UNCHANGED <<ledgerOrders, inserts, corrupted, brokerVars, tradeVars,
                   snap, filter, initiated, errors, syncRun, closeLog,
                   evalLog, db_updates>>
    /\ UNCHANGED <<ft, svc>>

\* the handler returns to pika without acknowledging
ReturnUnacked ==
    /\ pc' = "idle" /\ active' = active \ {delivered}
    /\ UNCHANGED <<running, exitCode, delivered, action, ackCount, raised>>

\* the end of handle_check_positions: ack only when sync_errors == 0
check_done ==
    /\ pc = "check_done"
    /\ IF syncErrors = 0 THEN Finish ELSE ReturnUnacked
    /\ UNCHANGED <<ledgerVars, brokerVars, tradeVars, monitorVars>>
    /\ UNCHANGED <<ft, svc>>

\* ------------------------------------------------------------ TradingDataDB
\* faulty variant: the marker file is never seen
marker_never_seen == FALSE

\* is_database_corrupted: the marker file exists
is_database_corrupted == corrupted

\* A start of the process after it exited: __main__ constructs the ledger
\* components, and TradingDataDB.__init__ raises before duckdb.connect when
\* the marker exists, which __main__ turns into exit code 12.  A message
\* left unacknowledged by the previous run is delivered again as a new
\* delivery.
TradingDataDB_init ==
    /\ ~running
    /\ IF is_database_corrupted
       THEN /\ pc' = "init_failed" /\ running' = FALSE /\ exitCode' = 12
            /\ UNCHANGED active
       ELSE /\ pc' = "idle" /\ running' = TRUE /\ exitCode' = 0
            /\ active' = {}
    /\ raised' = "none"
    /\ UNCHANGED <<delivered, action, ackCount, ledgerVars, brokerVars,
                   tradeVars, monitorVars>>
    /\ UNCHANGED <<ft, svc>>

\* ----------------------------------------------------------- specification
Next ==
    \/ \E body \in Bodies : callback(body)
    \/ decode_error
    \/ handle_validation_error
    \/ handle_unknown_action
    \/ handle_daily_stats
    \/ RuleChecks
    \/ cm_db
    \/ cm_api
    \/ cm_loop
    \/ cm_fetch
    \/ find_turbos
    \/ get_spending_power
    \/ calculate_bid_amount
    \/ place_market_order
    \/ find_position_attempt
    \/ find_position_retry_error
    \/ except_clause
    \/ insert_order
    \/ insert_position
    \/ executed
    \/ perf_db
    \/ perf_api
    \/ perf_eval
    \/ perf_close
    \/ perf_fetch
    \/ perf_updates
    \/ sync_db
    \/ sync_api
    \/ sync_closed
    \/ sync_apply
    \/ check_done
    \/ \E o \in Ids : BrokerFill(o)
    \/ \E p \in Ids : BrokerClose(p)
    \/ \E p \in Ids : BrokerForget(p)

Spec == Init /\ [][Next]_vars

\* the consumer under a supervisor that starts the process again
NextWithRestart == Next \/ TradingDataDB_init

SpecWithRestart == Init /\ [][NextWithRestart]_vars

\* ------------------------------------------ InstrumentService.find_turbos
\* The call on its own: the broker's answers are the inputs.
MaxItems == 3
max_bid_retries == 2
min_price == 4
max_price == 15

\* Bid of an InfoPrices item, 0 when the Quote has no Bid: the two bounds of
\* the price range and their neighbours
Bids == {min_price - 1, min_price, max_price, max_price + 1}

\* An InfoPrices item: quote says whether it has a Quote section, market sums
\* up PriceTypeAsk, PriceTypeBid and MarketState.  The items whose market is
\* not available are dropped before their Bid is compared with anything, so
\* one Bid is enough for them.
NoQuoteItem == [quote |-> FALSE, bid |-> 0, market |-> "Tradable"]
Items ==
    {NoQuoteItem} \cup
    [quote : {TRUE}, bid : {0} \cup Bids, market : {"Tradable"}] \cup
    [quote : {TRUE}, bid : {min_price},
     market : {"NoMarketAsk", "NoMarketBid", "Closed"}]

\* response_infoprices["Data"]; <<>> also stands for a response that is None
Responses == UNION {[1..n -> Items] : n \in 0..MaxItems}

\* the indices of a sequence that satisfy a test, in increasing order
RECURSIVE Indices(_, _)
Indices(n, keep) ==
    IF n = 0 THEN <<>>
    ELSE IF n \in keep THEN Append(Indices(n - 1, keep), n)
    ELSE Indices(n - 1, keep)

\* step 4, the tests of one response
items_with_quote_field(data) == {i \in 1..Len(data) : data[i].quote}
items_missing_bid_attr(data) == {i \in items_with_quote_field(data) : data[i].bid = 0}

\* percentage_missing_bid > 50, over the items that have a Quote
too_many_missing_inclusive(data) ==
    Cardinality(items_missing_bid_attr(data)) * 100
        >= 50 * Cardinality(items_with_quote_field(data))
too_many_missing(data) ==
    Cardinality(items_missing_bid_attr(data)) * 100
        > 50 * Cardinality(items_with_quote_field(data))

\* the final filter of step 4, then steps 5 and 6
valid_items_with_bid(data) == {i \in 1..Len(data) : data[i].quote /\ data[i].bid # 0}
available_items(data) ==
    {i \in valid_items_with_bid(data) : data[i].market = "Tradable"}
in_price_range_exclusive(bid) == min_price < bid /\ bid < max_price
in_price_range(bid) == min_price <= bid /\ bid <= max_price
price_filtered_items(data) == {i \in available_items(data) : in_price_range(data[i].bid)}

\* sorted(items, key=Bid, reverse=...): a stable insertion of item i into the
\* sorted sequence of indices done
RECURSIVE insert_sorted(_, _, _, _)
insert_sorted(done, i, data, reverse) ==
    IF done = <<>> THEN <<i>>
    ELSE LET last == done[Len(done)]
             before == IF reverse THEN data[i].bid > data[last].bid
                       ELSE data[i].bid < data[last].bid
         IN IF before
            THEN Append(insert_sorted(SubSeq(done, 1, Len(done) - 1), i, data, reverse), last)
            ELSE Append(done, i)

RECURSIVE sorted(_, _, _)
sorted(items, data, reverse) ==
    IF items = <<>> THEN <<>>
    ELSE insert_sorted(sorted(SubSeq(items, 1, Len(items) - 1), data, reverse),
                       items[Len(items)], data, reverse)

\* step 3: descending knock-out price unless the keyword is short
sort_reverse(keywords) == keywords # "short"

final_candidates_same_order(data, keywords) ==
    sorted(Indices(Len(data), price_filtered_items(data)), data, sort_reverse(keywords))
\* step 7: the candidates by Bid, in the order opposite to that of step 3
final_candidates(data, keywords) ==
    sorted(Indices(Len(data), price_filtered_items(data)), data, ~sort_reverse(keywords))

\* faulty variant: every empty filter result is reported as NoTurbosAvailable
select_failure_one_kind(data) ==
    IF price_filtered_items(data) = {} THEN "NoTurbosAvailable" ELSE "none"
\* the exception raised between the loop and the selection: no data in hand,
\* no item with a Bid or no available market is NoMarketAvailable, no item in
\* the price range is NoTurbosAvailable
select_failure(data) ==
    IF data = <<>> \/ valid_items_with_bid(data) = {} \/ available_items(data) = {}
    THEN "NoMarketAvailable"
    ELSE IF price_filtered_items(data) = {} THEN "NoTurbosAvailable"
    ELSE "none"

FtRaise(e) == ft' = [ft EXCEPT !.pc = "raised", !.raised = e]

\* steps 1 to 3: the instrument search, the parsing of the descriptions and
\* the knock-out sort
find_turbos_search ==
    /\ ft.pc = "idle"
    /\ \E keywords \in TradeActions,
          r \in {"ok", "NoData", "Unparsable"} \cup ReadErrors :
         IF r = "ok"
         THEN ft' = [ft EXCEPT !.pc = "bid_loop", !.keywords = keywords]
         ELSE ft' = [ft EXCEPT !.pc = "raised", !.keywords = keywords,
                               !.raised = IF r \in ReadErrors THEN r
                                          ELSE "NoTurbosAvailable"]
    /\ UNCHANGED <<handlerVars, svc>>

\* faulty variant: a sleep follows every retry consumed
sleeps_after_last_retry(used) == TRUE
\* time.sleep(retry_sleep) is called only if bid_retries < max_bid_retries
\* after the retry was consumed
sleeps_before_retry(used) == used < max_bid_retries

\* one turn of the while loop of step 4.  r is what _get_instrument_details
\* did: it returned data (possibly none), tenacity gave up (RetryError), or
\* another exception came out of it.
find_turbos_bid_attempt ==
    /\ ft.pc = "bid_loop"
    /\ ft.bid_data_missing /\ ft.bid_retries < max_bid_retries
    /\ \E r \in {"data", "RetryError", "Unexpected"}, data \in Responses :
         LET used == ft.bid_retries + 1
             log(kind, slept) ==
                 Append(ft.attempts, [kind |-> kind, slept |-> slept])
         IN CASE r = "RetryError" ->
                   \* ApiRequestException has no cause parameter
                   ft' = [ft EXCEPT !.pc = "raised", !.raised = "TypeError",
                                    !.response_infoprices = <<>>,
                                    !.attempts = log("RetryError", FALSE)]
              [] r = "Unexpected" ->
                   IF sleeps_before_retry(used)
                   THEN ft' = [ft EXCEPT !.bid_retries = used,
                                         !.attempts = log("Unexpected", TRUE)]
                   ELSE ft' = [ft EXCEPT !.bid_retries = used,
                                         !.pc = "raised", !.raised = "Unexpected",
                                         !.attempts = log("Unexpected", FALSE)]
              [] r = "data" /\ data = <<>> ->
                   ft' = [ft EXCEPT !.response_infoprices = data,
                                    !.bid_retries = used,
                                    !.attempts = log("NoData", sleeps_before_retry(used))]
              [] r = "data" /\ data # <<>> /\ items_with_quote_field(data) = {} ->
                   ft' = [ft EXCEPT !.response_infoprices = data,
                                    !.bid_data_missing = FALSE,
                                    !.attempts = log("NoQuote", FALSE)]
              [] r = "data" /\ items_with_quote_field(data) # {}
                            /\ too_many_missing(data) ->
                   ft' = [ft EXCEPT !.response_infoprices = data,
                                    !.bid_retries = used,
                                    !.attempts = log("MissingBid", sleeps_before_retry(used))]
              [] OTHER ->
                   ft' = [ft EXCEPT !.response_infoprices = data,
                                    !.bid_data_missing = FALSE,
                                    !.attempts = log("Accepted", FALSE)]
    /\ UNCHANGED <<handlerVars, svc>>

\* after the loop: the response in hand is filtered (Bid present, market
\* available, price range) and the first candidate by Bid is selected
find_turbos_select ==
    /\ ft.pc = "bid_loop"
    /\ ~(ft.bid_data_missing /\ ft.bid_retries < max_bid_retries)
    /\ LET data == ft.response_infoprices IN
       IF select_failure(data) # "none"
       THEN FtRaise(select_failure(data))
       ELSE ft' = [ft EXCEPT !.pc = "subscribe",
                             !.selected = Head(final_candidates(data, ft.keywords))]
    /\ UNCHANGED <<handlerVars, svc>>

\* what the price subscription request can do: answer with a Snapshot, answer
\* without one, or raise SaxoApiError, ApiRequestException or something else
SubscriptionOutcomes == {"Snapshot", "NoSnapshot", "SaxoApi", "ApiRequest", "Unexpected"}
SnapshotFailures == SubscriptionOutcomes \ {"Snapshot"}

NoResult == [source |-> "none", latest_bid |-> 0, subscription |-> FALSE]

\* faulty variant: the handler of unexpected exceptions sets no fallback
final_snapshot_data_no_fallback(r, snapshot_bid, item) ==
    IF r = "Snapshot"
    THEN [source |-> "Snapshot", latest_bid |-> snapshot_bid, subscription |-> TRUE]
    ELSE IF r = "Unexpected" THEN NoResult
    ELSE [source |-> "InfoPrices", latest_bid |-> item.bid, subscription |-> FALSE]
\* step 8: the data the result is built from and whether the subscription
\* identifiers are kept.  Every branch but the one with a Snapshot falls back
\* to the InfoPrices item selected.
final_snapshot_data(r, snapshot_bid, item) ==
    IF r = "Snapshot"
    THEN [source |-> "Snapshot", latest_bid |-> snapshot_bid, subscription |-> TRUE]
    ELSE [source |-> "InfoPrices", latest_bid |-> item.bid, subscription |-> FALSE]

\* steps 8 and 9: the price subscription, whose snapshot replaces the
\* InfoPrices data of the selected item when there is one; ValueError when
\* no data at all is left to build the result from
find_turbos_subscribe ==
    /\ ft.pc = "subscribe"
    /\ \E r \in SubscriptionOutcomes, bid \in Bids :
         LET data == final_snapshot_data(r, bid, ft.response_infoprices[ft.selected])
         IN IF data = NoResult
            THEN ft' = [ft EXCEPT !.pc = "raised", !.raised = "ValueError",
                                  !.response_price_sub = r]
            ELSE ft' = [ft EXCEPT !.pc = "returned", !.result = data,
                                  !.response_price_sub = r]
    /\ UNCHANGED <<handlerVars, svc>>

FindTurbosNext ==
    \/ find_turbos_search
    \/ find_turbos_bid_attempt
    \/ find_turbos_select
    \/ find_turbos_subscribe

SpecFindTurbos == Init /\ [][FindTurbosNext]_vars

\* the call runs on: a step that can be taken is taken
SpecFindTurbosFair == SpecFindTurbos /\ WF_vars(FindTurbosNext)

\* ---------------------------------------------- service methods on their own
\* Each call is one value of svc: the method, its arguments and, once the
\* method has run, what it returned or raised.

\* TradingOrchestrator._calculate_bid_amount.  Money is in cents, so that
\* available_funds = spending_power * max_account_percent / 100 is compared
\* and divided without rounding.
SpendingPowers == {0 - 10000, 0, 1900, 2000, 2999, 3000, 100000}
MaxAccountPercents == {50, 100}
AskPrices == {0, 300, 1000}
SafetyMargins == {0, 1, 2}

SizingCalls ==
    [op : {"_calculate_bid_amount"}, spending_power : SpendingPowers,
     max_account_percent : MaxAccountPercents, ask_price : AskPrices,
     safety_margin_units : SafetyMargins, done : {FALSE},
     amount : {0}, raised : {"none"}]

\* faulty variant: the safety margin is not subtracted
pre_amount_without_margin(spending_power, max_account_percent, ask_price, margin) ==
    IF spending_power * max_account_percent < 100 * ask_price * (1 + margin)
    THEN 0
    ELSE (spending_power * max_account_percent) \div (100 * ask_price)
\* int(math.floor(pre_amount)): 0 when the funds do not cover one unit plus
\* the margin, else the affordable units less the margin
pre_amount(spending_power, max_account_percent, ask_price, margin) ==
    IF spending_power * max_account_percent < 100 * ask_price * (1 + margin)
    THEN 0
    ELSE (spending_power * max_account_percent) \div (100 * ask_price) - margin

calculate_bid_amount_apply ==
    /\ svc.op = "_calculate_bid_amount" /\ ~svc.done
    /\ LET amount == pre_amount(svc.spending_power, svc.max_account_percent,
                                svc.ask_price, svc.safety_margin_units)
       IN svc' = IF svc.ask_price <= 0
                 THEN [svc EXCEPT !.done = TRUE, !.raised = "ValueError"]
                 ELSE IF amount <= 0
                 THEN [svc EXCEPT !.done = TRUE, !.raised = "InsufficientFunds"]
                 ELSE [svc EXCEPT !.done = TRUE, !.amount = amount]
    /\ UNCHANGED <<handlerVars, ft>>

\* PositionService.find_position_by_order_id_with_retry, for each value the
\* configuration may give to retry_config.max_retries
ConfiguredMaxRetries == {1, 3, DEFAULT_RETRY_ATTEMPTS, DEFAULT_RETRY_ATTEMPTS + 2}

FindPositionCalls ==
    [op : {"find_position_by_order_id_with_retry"},
     max_retries : ConfiguredMaxRetries, polls : {0}, done : {FALSE},
     found : {FALSE}, raised : {"none"}, cancellation_succeeded : {FALSE}]

\* one call of _find_position_attempt under its tenacity decorator: the
\* position is in the open positions, or it is not and tenacity either waits
\* for the next attempt or raises RetryError, upon which the order is
\* cancelled and PositionNotFoundException raised
find_position_poll ==
    /\ svc.op = "find_position_by_order_id_with_retry" /\ ~svc.done
    /\ \E r \in {"found", "missing", "Unexpected"}, cancelled \in BOOLEAN :
         svc' = CASE r = "found" ->
                       [svc EXCEPT !.polls = @ + 1, !.done = TRUE, !.found = TRUE]
                  [] r = "Unexpected" ->
                       [svc EXCEPT !.polls = @ + 1, !.done = TRUE, !.raised = r]
                  [] r = "missing" /\ svc.polls + 1 >= DEFAULT_RETRY_ATTEMPTS ->
                       [svc EXCEPT !.polls = @ + 1, !.done = TRUE,
                                   !.raised = "PositionNotFound",
                                   !.cancellation_succeeded = cancelled]
                  [] OTHER -> [svc EXCEPT !.polls = @ + 1]
    /\ UNCHANGED <<handlerVars, ft>>

\* OrderService.cancel_order, for each thing api_client.request can do with
\* the cancellation request: return a response (possibly empty) or raise
RequestOutcomes ==
    {"response", "no_content", "SaxoApi", "ApiRequest", "OrderPlacement",
     "InsufficientFunds", "Token", "Unexpected"}

CancelOrderCalls ==
    [op : {"cancel_order"}, request : RequestOutcomes, done : {FALSE},
     returned : {"none"}, raised : {"none"}]

\* faulty variant: only the two API exception classes are caught
cancel_order_result_api_only(request) ==
    IF request \in {"response", "no_content"}
    THEN [returned |-> "True", raised |-> "none"]
    ELSE IF request \in {"SaxoApi", "ApiRequest", "OrderPlacement", "InsufficientFunds"}
    THEN [returned |-> "False", raised |-> "none"]
    ELSE [returned |-> "none", raised |-> request]
\* True when the request came back, False in each except clause
cancel_order_result(request) ==
    IF request \in {"response", "no_content"}
    THEN [returned |-> "True", raised |-> "none"]
    ELSE [returned |-> "False", raised |-> "none"]

cancel_order_apply ==
    /\ svc.op = "cancel_order" /\ ~svc.done
    /\ LET res == cancel_order_result(svc.request)
       IN svc' = [svc EXCEPT !.done = TRUE, !.returned = res.returned,
                             !.raised = res.raised]
    /\ UNCHANGED <<handlerVars, ft>>

\* TradingRule.check_market_hours, for a current time and a market_hours
\* configuration that passes the validation of the configuration (the risky
\* hour lies in [trading_start_hour, trading_end_hour))
trading_start_hour == 9
trading_end_hour == 22
Hours == {trading_start_hour - 1, trading_start_hour, trading_end_hour - 2,
          trading_end_hour - 1, trading_end_hour}
Minutes == {0, 29, 30, 59}
RiskyStartHours == {trading_end_hour - 2, trading_end_hour - 1}
RiskyStartMinutes == {0, 30}

MarketHoursCalls ==
    [op : {"check_market_hours"}, closed_date : BOOLEAN,
     hour : Hours, minute : Minutes,
     risky_start_hour : RiskyStartHours, risky_start_minute : RiskyStartMinutes,
     done : {FALSE}, raised : {"none"}]

\* the three tests in the order of the code; "none" when the signal is let in
check_market_hours_result(closed_date, hour, minute, risky_start_hour, risky_start_minute) ==
    IF closed_date THEN "market closed date"
    ELSE IF ~(trading_start_hour <= hour /\ hour < trading_end_hour)
    THEN "outside of market hours"
    ELSE IF risky_start_hour <= hour /\ hour < trading_end_hour
            /\ minute >= risky_start_minute
    THEN "risky market hours"
    ELSE "none"

check_market_hours_apply ==
    /\ svc.op = "check_market_hours" /\ ~svc.done
    /\ svc' = [svc EXCEPT
                 !.done = TRUE,
                 !.raised = check_market_hours_result(svc.closed_date, svc.hour,
                                svc.minute, svc.risky_start_hour, svc.risky_start_minute)]
    /\ UNCHANGED <<handlerVars, ft>>

\* SaxoApiClient.request when the library raises OpenAPIError: the status
\* code, the ErrorCode of the body ("none" when the body has none or is not
\* JSON) and whether the endpoint path is that of the orders
StatusCodes == {400, 401, 403, 404, 409, 429, 500}
ErrorCodes == {"none", "InsufficientFunds", "SomeError"}

RequestCalls ==
    [op : {"request"}, status_code : StatusCodes, error_code : ErrorCodes,
     is_order_endpoint : BOOLEAN, done : {FALSE}, raised : {"none"},
     carried : {{}}]

\* faulty variant: the ErrorCode of the body does not count
request_error_by_status_only(status_code, error_code, is_order_endpoint) ==
    IF status_code = 400 /\ error_code = "InsufficientFunds"
    THEN [raised |-> "InsufficientFunds", carried |-> {"saxo_error_details"}]
    ELSE IF status_code \in {400, 403, 409} /\ is_order_endpoint
    THEN [raised |-> "OrderPlacement",
          carried |-> {"status_code", "saxo_error_details", "order_details"}]
    ELSE IF status_code = 401
    THEN [raised |-> "Token", carried |-> {"saxo_error_details"}]
    ELSE [raised |-> "SaxoApi", carried |-> {"status_code", "saxo_error_details"}]
\* the exception raised for an OpenAPIError and the fields it is given
request_error(status_code, error_code, is_order_endpoint) ==
    IF status_code = 400 /\ error_code = "InsufficientFunds"
    THEN [raised |-> "InsufficientFunds", carried |-> {"saxo_error_details"}]
    ELSE IF (status_code \in {400, 403, 409} \/ error_code # "none")
            /\ is_order_endpoint
    THEN [raised |-> "OrderPlacement",
          carried |-> {"status_code", "saxo_error_details", "order_details"}]
    ELSE IF status_code = 401
    THEN [raised |-> "Token", carried |-> {"saxo_error_details"}]
    ELSE [raised |-> "SaxoApi", carried |-> {"status_code", "saxo_error_details"}]

request_apply ==
    /\ svc.op = "request" /\ ~svc.done
    /\ LET e == request_error(svc.status_code, svc.error_code, svc.is_order_endpoint)
       IN svc' = [svc EXCEPT !.done = TRUE, !.raised = e.raised, !.carried = e.carried]
    /\ UNCHANGED <<handlerVars, ft>>

\* SaxoApiClient and its transport handle over a sequence of calls.
\* instance is the serial number of the SaxoOpenApiLib object in use (0 for
\* None) and access_token the token it was built with; last describes the
\* latest call of request or of the constructor.
MaxCalls == 4
Tokens == {"token1", "token2"}

NoRequest == [latest_token |-> "none", outcome |-> "none", used |-> 0]

SaxoApiClientCalls ==
    [op : {"SaxoApiClient"}, current_token : {"none"}, instance : {0},
     access_token : {"none"}, calls : {0}, last : {NoRequest}]

\* faulty variant: the instance is built once and kept
token_changed_or_instance_missing_first_only(latest_token, current_token, instance) ==
    instance = 0
\* latest_token != self._current_token or self._saxo_api_instance is None
token_changed_or_instance_missing(latest_token, current_token, instance) ==
    latest_token # current_token \/ instance = 0

\* _ensure_valid_token_and_api_instance followed, in request, by the
\* forwarding of the request to the instance.  get_token returns a token or
\* raises TokenAuthenticationException; the first call is the one of __init__,
\* which forwards nothing.
ensure_valid_token_and_request ==
    /\ svc.op = "SaxoApiClient" /\ svc.calls < MaxCalls
    /\ svc.last.outcome # "construction failed"
    /\ \E latest_token \in Tokens \cup {"TokenError"} :
         IF latest_token = "TokenError"
         THEN svc' = [svc EXCEPT
                        !.calls = @ + 1,
                        !.last = [latest_token |-> "none", used |-> 0,
                                  outcome |-> IF svc.calls = 0
                                              THEN "construction failed"
                                              ELSE "Token"]]
         ELSE LET renew == token_changed_or_instance_missing(
                               latest_token, svc.current_token, svc.instance)
                  instance == IF renew THEN svc.instance + 1 ELSE svc.instance
              IN svc' = [svc EXCEPT
                           !.calls = @ + 1,
                           !.instance = instance,
                           !.access_token = IF renew THEN latest_token ELSE @,
                           !.current_token = IF renew THEN latest_token ELSE @,
                           !.last = [latest_token |-> latest_token,
                                     used |-> IF svc.calls = 0 THEN 0 ELSE instance,
                                     outcome |-> IF svc.calls = 0 THEN "constructed"
                                                 ELSE "forwarded"]]
    /\ UNCHANGED <<handlerVars, ft>>

ServiceCalls ==
    SizingCalls \cup FindPositionCalls \cup CancelOrderCalls \cup MarketHoursCalls
        \cup RequestCalls \cup SaxoApiClientCalls

InitServices == HandlersInit /\ svc \in ServiceCalls

ServicesNext ==
    \/ calculate_bid_amount_apply
    \/ find_position_poll
    \/ cancel_order_apply
    \/ check_market_hours_apply
    \/ request_apply
    \/ ensure_valid_token_and_request

SpecServices == InitServices /\ [][ServicesNext]_vars

\* ------------------------------------------------------------- properties

\* C1: the ledger never holds two positions with status Open and the same
\* action (long or short).
C1_AtMostOneOpenPerDirection ==
    \A a \in TradeActions :
        Cardinality({p \in Ids : ledgerPos[p].status = "Open" /\ ledgerPos[p].action = a}) <= 1

\* a second signal of the direction already open in the ledger was rejected
C1_DuplicateRejected ==
    /\ delivered = 2 /\ action \in TradeActions /\ raised = "RuleViolation"
    /\ \E p \in Ids : ledgerPos[p].status = "Open" /\ ledgerPos[p].action = action

\* C2: a failed Order or Position insert, after the order was placed and the
\* position confirmed, is the last insert attempted (no Position insert
\* after a failed Order insert), is raised as DatabaseOperation, and ends
\* the process with the message unacknowledged instead of taking the next
\* signal.
C2_PersistenceFailureTerminates ==
    \A i \in 1..Len(inserts) :
        inserts[i] \in {"order failed", "position failed"} =>
            /\ i = Len(inserts)
            /\ placed # 0 /\ confirmed # 0
            /\ pc \in {"except_clause", "exited"}
            /\ pc = "except_clause" => pending = "Database"
            /\ pc = "exited" =>
                 /\ raised = "Database" /\ ~running /\ exitCode = 12
                 /\ ackCount[delivered] = 0

\* the Order insert failed and the process exited
C2_OrderInsertFailed ==
    /\ inserts = <<"order failed">> /\ pc = "exited" /\ raised = "Database"
    /\ ledgerPos[confirmed] = NoPos

\* C3 as stated: whenever an order was placed and a later step failed before
\* the position was confirmed and persisted, for a reason other than retry
\* exhaustion, CancelOrder was attempted on the placed order before the
\* error reached the caller.
C3_CancelOnAnyLaterFailure ==
    (placed # 0 /\ raised \notin {"none", "PositionNotFound"}
               /\ inserts # <<"order", "position">>) =>
        \E i \in 1..Len(cancels) : cancels[i].order = placed

\* C3 amended: when the search for the position fails for a reason other
\* than retry exhaustion, CancelOrder is attempted exactly once on the placed
\* order before the error reaches the caller; when persistence fails after
\* the position was confirmed, the error is DatabaseOperation and no
\* CancelOrder is attempted.
C3_CancelOnlyBeforeConfirmation ==
    (placed # 0 /\ raised \notin {"none", "PositionNotFound"}) =>
        IF confirmed = 0
        THEN Cardinality({i \in 1..Len(cancels) : cancels[i].order = placed}) = 1
        ELSE /\ raised = "Database"
             /\ \A i \in 1..Len(cancels) : cancels[i].order # placed

\* a broker error during the search, and the placed order cancelled
C3_OrphanCancelled ==
    /\ placed # 0 /\ confirmed = 0 /\ raised = "ApiRequest"
    /\ \E i \in 1..Len(cancels) : cancels[i].order = placed /\ cancels[i].result

\* C4: when no attempt of the retry budget finds the position,
\* FindPositionByOrderID calls CancelOrder exactly once on the order and
\* raises PositionNotFound with cancellationAttempted = true and
\* cancellationSucceeded equal to what CancelOrder returned.
C4_RetryExhaustionCancelsOnce ==
    /\ pc = "retry_error" => polls = DEFAULT_RETRY_ATTEMPTS /\ confirmed = 0
    /\ (polls = DEFAULT_RETRY_ATTEMPTS /\ confirmed = 0 /\ pending = "none") =>
           pc = "retry_error" \/ raised = "PositionNotFound"
    /\ raised = "PositionNotFound" =>
           /\ polls = DEFAULT_RETRY_ATTEMPTS /\ confirmed = 0
           /\ Cardinality({i \in 1..Len(cancels) : cancels[i].order = placed}) = 1
           /\ pnf.order = placed /\ pnf.attempted
           /\ \A i \in 1..Len(cancels) :
                  cancels[i].order = placed => pnf.succeeded = cancels[i].result

\* the budget ran out and the cancellation was accepted
C4_ExhaustedAndCancelled ==
    /\ raised = "PositionNotFound" /\ polls = DEFAULT_RETRY_ATTEMPTS
    /\ pnf.succeeded /\ bOrders[placed] = "cancelled"

\* C5: a Position record exists only for a position the broker reported for
\* the placed order; when ExecuteSignal returns, the Order and then the
\* Position were inserted and the Position record has status Open.
C5_PersistedOpenAfterConfirmation ==
    /\ \A p \in Ids : ledgerPos[p] # NoPos =>
           /\ bOrders[ledgerPos[p].order] = "filled" /\ bPos[p] # "none"
           /\ ledgerPos[p].order \in ledgerOrders
    /\ pc = "executed" =>
           /\ inserts = <<"order", "position">>
           /\ confirmed = PositionOfOrder(placed) \/ bPos[confirmed] \in {"closed", "gone"}
           /\ ledgerPos[confirmed].status = "Open"

\* C6: the opening order of a long/short signal is placed only after the rule
\* checks, FindTurbo, GetSpendingPower and sizing all succeeded; when one of
\* them failed no opening order was placed and no Order or Position insert
\* was attempted; no other message places an opening order.
C6_OrderOnlyAfterAllChecks ==
    /\ (pc = "place_market_order" \/ placed # 0) =>
           /\ action \in TradeActions
           /\ passed = {"rules", "turbo", "spending", "sizing"}
    /\ passed # {"rules", "turbo", "spending", "sizing"} =>
           /\ placed = 0 /\ inserts = <<>>
           /\ delivered > 0 =>
                  Cardinality({o \in Ids : bOrders[o] # "none"}) < delivered

\* sizing failed after the earlier steps passed: no order, no insert
C6_SizingFailedNoOrder ==
    /\ action \in TradeActions /\ raised = "InsufficientFunds"
    /\ passed = {"rules", "turbo", "spending"}
    /\ placed = 0 /\ inserts = <<>> /\ pc = "idle"

\* C7: a signal whose handling raised RuleViolation, NoTurbosAvailable,
\* NoMarketAvailable, InsufficientFunds or OrderPlacementError is
\* acknowledged exactly once and is no longer in progress, and the process
\* runs on, ready for the next signal.
C7_NonFatalAcknowledged ==
    raised \in {"RuleViolation", "NoTurbos", "NoMarket", "InsufficientFunds",
                "OrderPlacement"} =>
        /\ running /\ exitCode = 0 /\ pc = "idle"
        /\ ackCount[delivered] = 1 /\ delivered \notin active

\* the order was refused, the signal acknowledged, and the next one taken
C7_OrderRefusedThenNext ==
    /\ delivered = 1 /\ raised = "OrderPlacement" /\ ackCount[1] = 1
    /\ running /\ ENABLED callback("long")

\* C8 as stated: every fatal error ends the process, with an exit code that
\* no other fatal error class has.
C8_DistinctExitCodePerClass ==
    /\ raised \in {"Token", "Config", "Database", "PositionNotFound", "SaxoApi",
                   "ApiRequest", "Unexpected"} => ~running
    /\ ~running =>
           \A e \in {"Token", "Config", "Database", "PositionNotFound", "SaxoApi",
                     "ApiRequest", "Unexpected"} \ {raised} : ExitCodeOf(e) # exitCode

\* C8 amended: every fatal error ends the process with the message
\* unacknowledged; the exit code is 2 for TokenAuthentication and
\* ConfigurationError, 12 for DatabaseOperation, 3 for PositionNotFound, 5
\* for BrokerAPIError and APIRequest, 1 for any unexpected error.
C8_ExitCodePerGroup ==
    /\ raised \in {"Token", "Config", "Database", "PositionNotFound", "SaxoApi",
                   "ApiRequest", "Unexpected"} => ~running
    /\ ~running =>
           /\ pc = "exited" /\ ackCount[delivered] = 0
           /\ exitCode = CASE raised \in {"Token", "Config"} -> 2
                           [] raised = "Database" -> 12
                           [] raised = "PositionNotFound" -> 3
                           [] raised \in {"SaxoApi", "ApiRequest"} -> 5
                           [] raised = "Unexpected" -> 1
                           [] OTHER -> 0
           /\ exitCode # 0

\* the ledger could not be written and the process exited with 12
C8_DatabaseExit ==
    ~running /\ raised = "Database" /\ exitCode = 12

\* C9 as stated: messages are handled one at a time, and a message whose
\* handling is over was acknowledged exactly once unless the process
\* terminated on it.
C9_AckOnceOrTerminate ==
    /\ Cardinality(active) <= 1
    /\ \A m \in Msgs : ackCount[m] <= 1
    /\ \A m \in 1..delivered : m \notin active => ackCount[m] = 1
    /\ ~running => delivered \in active /\ ackCount[delivered] = 0

\* C9 amended: messages are handled one at a time and none is acknowledged
\* twice; when the handling of a message is over, either it was acknowledged
\* exactly once, or the process terminated without acknowledging it, or it
\* is a check_positions message with failed sync updates, which
\* stays unacknowledged while the process keeps consuming.
C9_AckOnceTerminateOrSyncFailure ==
    /\ Cardinality(active) <= 1
    /\ \A m \in Msgs : ackCount[m] <= 1
    /\ (pc = "idle" /\ delivered > 0) =>
           \/ ackCount[delivered] = 1
           \/ /\ action = "check_positions_on_saxo_api" /\ syncErrors > 0
              /\ ackCount[delivered] = 0 /\ running
    /\ (pc = "idle" /\ delivered > 0 /\ action = "check_positions_on_saxo_api") =>
           (ackCount[delivered] = 1 <=> syncErrors = 0)
    /\ ~running => delivered \in active /\ ackCount[delivered] = 0

\* a check_positions message left unacknowledged, the consumer still running
C9_SyncFailureUnacked ==
    /\ pc = "idle" /\ running /\ action = "check_positions_on_saxo_api"
    /\ syncErrors > 0 /\ ackCount[delivered] = 0 /\ active = {}

\* C10: at most one handler is in progress at any time: while a handler
\* works on the ledger and the broker it is the handler of the last
\* delivery, and between handlers nothing runs.
C10_OneHandlerAtATime ==
    /\ pc = "idle" => active = {}
    /\ pc # "idle" => active = {delivered}

\* the monitor closing a position after a signal was executed
C10_MonitorAfterSignal ==
    /\ action = "check_positions_on_saxo_api" /\ pc = "perf_fetch"
    /\ delivered = 2 /\ active = {2} /\ ackCount[1] = 1

\* C11 as stated: every broker order of a long, short, close-long,
\* close-short or close-position signal, opening or closing, is placed after
\* the rule checks admitted that signal.
C11_OrdersOnlyAfterRules ==
    (action \in TradeActions \cup CloseActions /\ (placed # 0 \/ initiated > 0)) =>
        "rules" \in passed

\* C11 amended: the opening order and the closing orders of a long or short
\* signal are placed after the rule checks admitted it; a close-long,
\* close-short or close-position signal is never put to the rule checks and
\* its closing orders are placed without them.
C11_RulesGateTradingSignalsOnly ==
    /\ (action \in TradeActions /\ (placed # 0 \/ initiated > 0)) => "rules" \in passed
    /\ (action \in TradeActions /\ pc \in {"cm_db", "cm_api", "cm_loop", "cm_fetch"}) =>
           "rules" \in passed
    /\ action \in CloseActions => passed = {} /\ raised # "RuleViolation"

\* a close-long signal placed a closing order with no rule evaluated
C11_CloseSignalUngated ==
    /\ action = "close-long" /\ initiated > 0 /\ passed = {}
    /\ \E p \in Ids : closeOrders[p] > 0 /\ ledgerPos[p].action = "long"

\* C12: when the process has terminated on a DatabaseOperation error, raised
\* for a ledger write that failed after the trade executed on the broker,
\* the database-corrupted marker is present.
C12_MarkerBeforeTermination ==
    (~running /\ raised = "Database") => corrupted

\* C13: once the database-corrupted marker is written no step removes it,
\* and while it is present a process that is not running stays not running:
\* every initialisation of the ledger components fails, with exit code 12
\* and the ledger untouched.
C13_MarkerStaysAndBlocksInit ==
    /\ [](pc = "init_failed" => corrupted /\ ~running /\ exitCode = 12)
    /\ [][/\ corrupted => corrupted'
          /\ (corrupted /\ ~running) => (~running' /\ ledgerVars' = ledgerVars)]_vars

\* the marker was written during a closure, the process exited later, and
\* its next start was refused
C13_InitRefused ==
    pc = "init_failed" /\ corrupted /\ ~running /\ exitCode = 12

\* C14 as stated: a position Open in the ledger that was in the broker's
\* closed list when the sync of a check_positions pass started, and still is,
\* is Closed in the ledger when the pass ends without a failed ledger update.
C14_OnePassRepairs ==
    (pc = "check_done" /\ syncErrors = 0) =>
        \A p \in syncRun.closedAtStart :
            bPos[p] = "closed" => ledgerPos[p].status = "Closed"

\* C14 amended: when both broker reads of the sync succeeded, every such
\* position is among the updates the sync returns, and when the pass ends
\* without a failed ledger update every returned update has left its
\* position Closed; a pass in which a broker read fails repairs nothing.
C14_OnePassRepairsWhenReadsSucceed ==
    /\ (pc \in {"sync_apply", "check_done"} /\ syncRun.calls = "ok") =>
           \A p \in syncRun.closedAtStart : bPos[p] = "closed" => p \in syncRun.updates
    /\ (pc = "check_done" /\ syncRun.calls = "ok" /\ syncErrors = 0) =>
           \A p \in syncRun.updates : ledgerPos[p].status = "Closed"
    /\ (pc = "check_done" /\ syncRun.calls = "failed") =>
           \A p \in syncRun.closedAtStart : ledgerPos[p].status = "Open"

\* the immediate update after a closing order failed, and the sync of the
\* same pass closed the position in the ledger
C14_DivergenceRepaired ==
    /\ pc = "check_done" /\ syncRun.calls = "ok" /\ syncErrors = 0
    /\ \E p \in syncRun.closedAtStart :
           closeOrders[p] > 0 /\ errors > 0 /\ ledgerPos[p].status = "Closed"

\* C15: every call of SyncDBPositionsWithAPI made while each position Open
\* in the ledger is in the broker's open-position list returns zero updates
\* and leaves the ledger unchanged, so the next call starts from the same
\* ledger; the same holds for a call made with no position Open in the
\* ledger.
C15_SyncInAgreementIsIdle ==
    [][/\ (pc = "sync_api" /\ pc' # "sync_api"
              /\ get_open_positions_ids \subseteq get_open_positions) =>
             /\ pc' = "check_done" /\ syncRun'.updates = {} /\ todo' = <<>>
             /\ ledgerVars' = ledgerVars
       /\ (pc = "sync_db" /\ pc' = "check_done") =>
             /\ get_open_positions_ids = {} /\ syncRun'.updates = {} /\ todo' = <<>>
             /\ ledgerVars' = ledgerVars]_vars

\* a sync that found its open position at the broker and returned nothing
C15_AgreementNoUpdate ==
    /\ pc = "check_done" /\ syncRun.calls = "ok" /\ syncRun.updates = {}
    /\ get_open_positions_ids # {} /\ get_open_positions_ids \subseteq snap
    /\ snap = get_open_positions /\ syncErrors = 0

\* C16: a position Open in the ledger that is neither in the open-position
\* list the sync read nor in the closed list when the sync reads it gets no
\* update: its ledger record is unchanged by the sync, and while the updates
\* are applied only records of returned updates change.
C16_AnomalyLeftUntouched ==
    [][/\ pc = "sync_closed" =>
             \A p \in Ids :
                 (ledgerPos[p].status = "Open" /\ p \notin snap /\ bPos[p] # "closed") =>
                     p \notin syncRun'.updates /\ ledgerPos'[p] = ledgerPos[p]
       /\ pc = "sync_apply" =>
             \A p \in Ids : p \notin syncRun.updates => ledgerPos'[p] = ledgerPos[p]]_vars

\* a sync that read both lists and left the unlisted position Open
C16_AnomalyStillOpen ==
    /\ pc = "check_done" /\ syncRun.calls = "ok" /\ syncRun.updates = {}
    /\ \E p \in Ids : /\ ledgerPos[p].status = "Open" /\ bPos[p] = "gone"
                      /\ p \notin snap /\ snap = get_open_positions

\* C17: when the immediate ledger update after a closing order fails (the
\* position is not in the broker's closed list, the broker call fails, or the
\* ledger write fails and leaves the marker), the position's ledger record is
\* left as it was, with status Open, the run's error count grows by exactly
\* one, and the loop goes on with the remaining positions; a successful update
\* leaves the error count alone.
C17_FailedUpdateLeavesOpenAndContinues ==
    [][(pc \in {"cm_fetch", "perf_fetch"} /\ pc' # pc) =>
         LET p == Head(todo)
             failed == \/ bPos[p] # "closed"
                       \/ (corrupted' /\ ~corrupted)
                       \/ ledgerPos'[p].status # "Closed"
         IN /\ closeOrders[p] > 0 /\ closeLog[Len(closeLog)].pos = p
            /\ todo' = Tail(todo)
            /\ pc' = (IF pc = "cm_fetch" THEN "cm_loop" ELSE "perf_close")
            /\ IF failed
               THEN /\ ledgerPos[p].status = "Open"
                    /\ ledgerPos' = ledgerPos
                    /\ errors' = errors + 1
               ELSE /\ ledgerPos'[p].status = "Closed"
                    /\ errors' = errors]_vars

\* A closure run in which the first position's immediate update failed, the
\* position is still Open in the ledger, and the next position got its
\* closing order all the same.
C17_FailedThenNextProcessed ==
    /\ Len(closeLog) = 2 /\ initiated = 2 /\ errors >= 1
    /\ closeLog[1].accepted /\ closeLog[2].accepted
    /\ closeLog[1].pos # closeLog[2].pos
    /\ ledgerPos[closeLog[1].pos].status = "Open"

\* C18: close_managed_positions_by_criteria with filter long or short submits
\* closing orders only for positions whose ledger action equals the filter and
\* leaves the others as they are, even when they are open and closable on the
\* broker; once it has returned to a close-* handler, every position that was
\* Open in the ledger, in the broker's open list and closable (and of the
\* filter's direction, if there is a filter) has had exactly one closing order
\* submitted, and every other position none.
C18_FilteredClosure ==
    /\ [](\A i \in 1..Len(closeLog) :
            filter # "all" => ledgerPos[closeLog[i].pos].action = filter)
    /\ []((action \in CloseActions /\ pc = "idle" /\ raised = "none") =>
            \A p \in Ids :
              Cardinality({i \in 1..Len(closeLog) : closeLog[i].pos = p})
                = IF /\ ledgerPos[p].status \in {"Open", "Closed"}
                     /\ p \in snap /\ bCan[p]
                     /\ (filter = "all" \/ ledgerPos[p].action = filter)
                  THEN 1 ELSE 0)
    /\ [][(pc \in {"cm_loop", "cm_fetch"}) =>
            \A p \in Ids :
              (filter # "all" /\ ledgerPos[p].action # filter) =>
                  (ledgerPos'[p] = ledgerPos[p] /\ closeOrders'[p] = closeOrders[p])]_vars

\* close-long has closed the long position and left alone a short position
\* that is Open in the ledger, open on the broker and closable.
C18_OtherDirectionLeftOpen ==
    /\ action = "close-long" /\ pc = "idle" /\ raised = "none"
    /\ \E p, q \in Ids :
         /\ ledgerPos[p].action = "long" /\ closeLog = <<ClosingOrder(p, TRUE)>>
         /\ ledgerPos[q].action = "short" /\ ledgerPos[q].status = "Open"
         /\ q \in snap /\ bPos[q] = "open" /\ bCan[q] /\ closeOrders[q] = 0

\* C19: no closing order is ever submitted for a position whose broker record
\* has CanBeClosed false or absent, by check_all_positions_performance or by
\* close_managed_positions_by_criteria, and neither of them touches the
\* ledger record of such a position: it stays Open.
C19_UnclosableNeverClosed ==
    /\ [](\A i \in 1..Len(closeLog) : bCan[closeLog[i].pos])
    /\ [][(pc \in {"cm_loop", "cm_fetch", "perf_close", "perf_fetch"}) =>
            \A p \in Ids :
              (~bCan[p] /\ ledgerPos[p].status = "Open") =>
                  (ledgerPos'[p] = ledgerPos[p] /\ closeOrders'[p] = closeOrders[p]
                   /\ closeLog' \in {closeLog} \cup {Append(closeLog, c) :
                          c \in {ClosingOrder(q, a) : q \in Ids \ {p}, a \in BOOLEAN}})]_vars

\* close-position has gone through a position that is Open in the ledger and
\* in the broker's open list with CanBeClosed false: no order, still Open.
C19_UnclosableSkipped ==
    /\ action = "close-position" /\ pc = "idle" /\ raised = "none"
    /\ \E p \in Ids :
         /\ ledgerPos[p].status = "Open" /\ p \in snap /\ ~bCan[p]
         /\ closeLog = <<>> /\ closeOrders[p] = 0 /\ initiated = 0 /\ errors = 0

\* C20: every closing order the PerformanceMonitor submits (threshold trigger
\* or close_managed_positions_by_criteria) has the direction opposite to the
\* position's: Sell for a position with a positive amount, Buy for one with a
\* negative amount.
C20_ClosingOrderOpposesPosition ==
    \A i \in 1..Len(closeLog) :
        closeLog[i].sent = (IF PositionAmount(closeLog[i].pos) > 0 THEN "Sell" ELSE "Buy")

\* C21 as stated: for each position checked, the closure reason is the first
\* match of stop-loss, take-profit and the daily target, the daily target
\* being the exact test (1+today/100)*(1+performance/100)-1 >= target/100.
C21_FirstMatchExactDailyTest ==
    \A e \in evalLog :
        (~e.asked \/ e.read) =>
            e.reason =
                IF e.perf <= stoploss_percent * 100 THEN "Stoploss"
                ELSE IF e.perf >= max_profit_percent * 100 THEN "Takeprofit"
                ELSE IF (10000 + e.today) * (10000 + e.perf) - 10000 * 10000
                          >= percent_profit_wanted_per_days * 100 * 10000
                     THEN "DailyProfit"
                ELSE "none"

\* C21: for each position checked, the closure reason is the first match of
\* stop-loss (performance <= stoploss_percent), take-profit (performance >=
\* max_profit_percent) and the daily target, where the daily target compares
\* the combined percent rounded to two decimals with the target; the daily
\* test is reached only when neither threshold matched and gives no reason
\* when the day's percent cannot be read; only positions with a reason get a
\* closing order from the performance check.
C21_FirstMatchRoundedDailyTest ==
    /\ \A e \in evalLog :
         /\ e.asked = (e.perf > stoploss_percent * 100 /\ e.perf < max_profit_percent * 100)
         /\ e.read => e.asked
         /\ e.reason =
              IF e.perf <= stoploss_percent * 100 THEN "Stoploss"
              ELSE IF e.perf >= max_profit_percent * 100 THEN "Takeprofit"
              ELSE IF /\ e.read
                      /\ Round2((10000 + e.today) * (10000 + e.perf) - 10000 * 10000, 10000)
                           >= percent_profit_wanted_per_days * 100
                   THEN "DailyProfit"
              ELSE "none"
    /\ pc \in {"perf_close", "perf_fetch", "perf_updates"} =>
         \A i \in 1..Len(closeLog) :
             \E e \in evalLog : e.pos = closeLog[i].pos /\ e.reason # "none"

\* Both loops are through: a position that matched take-profit and the daily
\* target got its closing order for take-profit without the daily test, and
\* a position matching nothing got none.
C21_TakeprofitBeforeDaily ==
    /\ pc = "perf_updates"
    /\ \E e, f \in evalLog :
         /\ e.reason = "Takeprofit" /\ ~e.asked
         /\ potential_today_percent(0, e.perf) >= percent_profit_wanted_per_days * 100
         /\ \E i \in 1..Len(closeLog) : closeLog[i].pos = e.pos
         /\ f.reason = "none" /\ f.asked /\ f.read
         /\ \A i \in 1..Len(closeLog) : closeLog[i].pos # f.pos

\* C22: the ledger status of a position only moves from Open to Closed: once
\* it is Closed, no step of a performance check, an explicit closure, a sync
\* pass or a signal execution makes it anything else.
C22_ClosedStaysClosed ==
    [][\A p \in Ids :
         ledgerPos[p].status = "Closed" => ledgerPos'[p].status = "Closed"]_vars

\* A position Closed in the ledger has just received the maximum update the
\* performance check had collected before closing it, and is still Closed.
C22_ClosedAfterLaterWrite ==
    /\ pc = "sync_db" /\ action = "check_positions_on_saxo_api"
    /\ \E p \in Ids :
         /\ ledgerPos[p].status = "Closed" /\ ledgerPos[p].max = max_profit_percent * 100
         /\ \E i \in 1..Len(closeLog) : closeLog[i].pos = p

\* C23 as stated: max_performance_percent changes only while the ledger
\* status is Open, and every change is an increase.
C23_MaxOnlyRisesWhileOpen ==
    [][\A p \in Ids :
         ledgerPos'[p].max # ledgerPos[p].max =>
             /\ ledgerPos[p].status = "Open"
             /\ ledgerPos'[p].max > ledgerPos[p].max]_vars

\* C24: the status Closed and the close_* columns of a position are written
\* at most once, and exactly once for a position that is Closed: no later
\* performance check, explicit closure or sync pass writes them again.
C24_ClosedWrittenOnce ==
    \A p \in Ids :
        /\ ledgerPos[p].closeWrites <= 1
        /\ ledgerPos[p].status = "Closed" <=> ledgerPos[p].closeWrites = 1

\* A sync pass has run to its end over a ledger holding a position that was
\* closed while handling an earlier message and is still in the broker's
\* closed list: its row has been written once.
C24_LaterSyncLeavesClosedRow ==
    /\ pc = "check_done" /\ syncRun.calls = "ok" /\ closeLog = <<>>
    /\ \E p \in Ids :
         /\ ledgerPos[p].status = "Closed" /\ ledgerPos[p].closeWrites = 1
         /\ bPos[p] = "closed" /\ p \notin syncRun.updates
         /\ p \notin syncRun.closedAtStart

\* ----------------------------------------------- find_turbos properties

\* the call is past the bid-availability loop
PastBidLoop == ft.pc \in {"raised", "subscribe", "returned"}

\* every turn of the bid-availability loop, max_retries of them, got a
\* response in which more than half of the quoted items lack a bid
EveryFetchMissingBid ==
    /\ Len(ft.attempts) = max_bid_retries
    /\ \A i \in 1..Len(ft.attempts) : ft.attempts[i].kind = "MissingBid"

\* C25: if every quote fetch of the bid-availability loop, up to max_retries,
\* returns a set in which more than 50% of the quoted items lack a bid,
\* find_turbos raises NoMarketAvailable.
C25_ExhaustedMissingBidFails ==
    (EveryFetchMissingBid /\ PastBidLoop) => ft.raised = "NoMarketAvailable"

\* C26 as stated: a fetch that returns no quote data at any turn of the loop
\* makes find_turbos raise NoMarketAvailable.
C26_AnyEmptyFetchFails ==
    (PastBidLoop /\ \E i \in 1..Len(ft.attempts) : ft.attempts[i].kind = "NoData")
        => ft.raised = "NoMarketAvailable"

\* C26: a fetch that returns no quote data uses one retry and is followed by
\* a sleep and another fetch while retries remain; find_turbos raises
\* NoMarketAvailable when the last fetch of the loop returned no quote data.
C26_EmptyLastFetchFails ==
    /\ \A i \in 1..Len(ft.attempts) :
          ft.attempts[i].kind = "NoData"
              => /\ ft.bid_retries >= i
                 /\ ft.attempts[i].slept <=> i < max_bid_retries
    /\ (PastBidLoop /\ ft.attempts # <<>>
           /\ ft.attempts[Len(ft.attempts)].kind = "NoData")
          => ft.raised = "NoMarketAvailable"

C26_EmptyAfterMissingBid ==
    /\ ft.pc = "raised" /\ ft.raised = "NoMarketAvailable"
    /\ Len(ft.attempts) = max_bid_retries
    /\ ft.attempts[1].kind = "MissingBid"
    /\ ft.attempts[Len(ft.attempts)].kind = "NoData"

\* a turn of the bid-availability loop has just fetched a response that has
\* items with a Quote section
FetchedQuotedItems ==
    /\ ft.pc = "bid_loop"
    /\ Len(ft'.attempts) = Len(ft.attempts) + 1
    /\ ft'.attempts[Len(ft'.attempts)].kind \in {"MissingBid", "Accepted"}

\* the number of items of a response that have a Quote section, and of
\* those that have one without a Bid
Quoted(data) == Cardinality({i \in 1..Len(data) : data[i].quote})
QuotedWithoutBid(data) ==
    Cardinality({i \in 1..Len(data) : data[i].quote /\ data[i].bid = 0})

Selected == ft.pc \in {"subscribe", "returned"}

\* the filters that follow the bid-availability loop have run
SelectActed ==
    /\ ft.attempts # <<>>
    /\ \/ Selected
       \/ ft.pc = "raised" /\ ft.raised \in {"NoMarketAvailable", "NoTurbosAvailable"}

\* the items of a response that have a Bid and an available market
WithBidAndMarket(data) ==
    {i \in 1..Len(data) : data[i].quote /\ data[i].bid # 0 /\ data[i].market = "Tradable"}

\* C28: the price-range filter keeps an instrument if and only if
\* min <= bid <= max (a bid equal to min or to max is kept, one just below min
\* or just above max is dropped), and when no instrument is kept find_turbos
\* raises NoTurbosAvailable.
C28_PriceRangeInclusive ==
    SelectActed =>
        LET data == ft.response_infoprices
            kept == {i \in WithBidAndMarket(data) :
                        data[i].bid >= min_price /\ data[i].bid <= max_price}
        IN /\ ft.raised = "NoTurbosAvailable"
                <=> (WithBidAndMarket(data) # {} /\ kept = {})
           /\ Selected <=> kept # {}
           /\ Selected => ft.selected \in kept

C28_BoundKeptNeighboursDropped ==
    /\ ft.pc = "subscribe"
    /\ LET data == ft.response_infoprices
       IN /\ data[ft.selected].bid = max_price
          /\ \E i \in WithBidAndMarket(data) : data[i].bid = max_price + 1
          /\ \E i \in WithBidAndMarket(data) : data[i].bid = min_price - 1

\* the items of a response that pass every filter
PassedEveryFilter(data) ==
    {i \in WithBidAndMarket(data) :
        data[i].bid >= min_price /\ data[i].bid <= max_price}

\* C29: the selected instrument passed every filter (it has a bid, neither
\* quote side is NoMarket, its market state is not Closed, its bid is within
\* [min, max]), and among those that passed it is the first by bid in the order
\* opposite to the knock-out sort: the lowest bid for long, the highest for
\* short (the earliest of the response among equal bids).
C29_SelectedIsFirstByBid ==
    Selected =>
        LET data == ft.response_infoprices
            survivors == PassedEveryFilter(data)
            chosen == data[ft.selected].bid
        IN /\ ft.selected \in survivors
           /\ ft.keywords = "long" => \A j \in survivors : chosen <= data[j].bid
           /\ ft.keywords = "short" => \A j \in survivors : chosen >= data[j].bid
           /\ \A j \in survivors : data[j].bid = chosen => ft.selected <= j

C29_ShortTakesHighestBid ==
    /\ ft.pc = "subscribe" /\ ft.keywords = "short"
    /\ LET data == ft.response_infoprices
       IN /\ data[ft.selected].bid = max_price
          /\ ft.selected > 1
          /\ \E j \in PassedEveryFilter(data) : j < ft.selected /\ data[j].bid = min_price

\* C30: a failure of the live price snapshot (a broker error, a transport
\* error, an unexpected error, a response without a snapshot) never makes
\* find_turbos raise: the result is then built from the InfoPrices data of the
\* selected instrument, with no subscription identifiers.
C30_SnapshotFailureFallsBack ==
    ft.response_price_sub \in SnapshotFailures =>
        /\ ft.pc = "returned" /\ ft.raised = "none"
        /\ ft.result.source = "InfoPrices"
        /\ ft.result.latest_bid = ft.response_infoprices[ft.selected].bid
        /\ ~ft.result.subscription

C30_UnexpectedErrorFellBack ==
    /\ ft.response_price_sub = "Unexpected"
    /\ ft.pc = "returned"
    /\ ft.result.source = "InfoPrices" /\ ft.result.latest_bid = max_price

\* ------------------------------------------------- service-call properties

\* C31: for every spending power, funds percentage, ask price > 0 and integer
\* safety margin, the amount is floor((spendingPower * maxFundsPercent / 100)
\* / askPrice) - safetyMarginUnits when that is > 0; when it is <= 0 (spending
\* power 0 or negative included) sizing raises InsufficientFunds and returns
\* no amount.
C31_AmountIsFloorLessMargin ==
    (svc.op = "_calculate_bid_amount" /\ svc.done /\ svc.ask_price > 0) =>
        LET units == (svc.spending_power * svc.max_account_percent)
                         \div (100 * svc.ask_price) - svc.safety_margin_units
        IN IF units > 0
           THEN svc.raised = "none" /\ svc.amount = units
           ELSE svc.raised = "InsufficientFunds" /\ svc.amount = 0

C31_NinetyNineUnits ==
    /\ svc.op = "_calculate_bid_amount" /\ svc.done
    /\ svc.spending_power = 100000 /\ svc.ask_price = 1000
    /\ svc.max_account_percent = 100 /\ svc.safety_margin_units = 1
    /\ svc.amount = 99

\* C32: find_position_by_order_id_with_retry polls the broker's open
\* positions at most max_retries times before giving up, max_retries being the
\* retry budget of the configuration.
C32_PollsWithinConfiguredRetries ==
    svc.op = "find_position_by_order_id_with_retry" => svc.polls <= svc.max_retries

\* C33: cancel_order never raises: it returns True when the broker accepted
\* the cancellation request and False on every failure (broker error,
\* transport error, any unexpected error).
C33_CancelOrderNeverRaises ==
    (svc.op = "cancel_order" /\ svc.done) =>
        /\ svc.raised = "none"
        /\ svc.returned = "True" <=> svc.request \in {"response", "no_content"}
        /\ svc.returned = "False" <=> svc.request \notin {"response", "no_content"}

C33_UnexpectedErrorReturnsFalse ==
    /\ svc.op = "cancel_order" /\ svc.done
    /\ svc.request = "Unexpected" /\ svc.returned = "False"

\* C34: check_market_hours rejects the signal whenever the current (hour,
\* minute) is at or after (risky_trading_start_hour,
\* risky_trading_start_minute) and the hour is below trading_end_hour; it also
\* rejects on a closed date and when the hour is outside [trading_start_hour,
\* trading_end_hour), and lets the signal in otherwise.
C34_RiskyTailRejectedEntirely ==
    (svc.op = "check_market_hours" /\ svc.done) =>
        LET outside == svc.hour < trading_start_hour \/ svc.hour >= trading_end_hour
            in_tail == /\ svc.hour < trading_end_hour
                       /\ \/ svc.hour > svc.risky_start_hour
                          \/ /\ svc.hour = svc.risky_start_hour
                             /\ svc.minute >= svc.risky_start_minute
        IN svc.raised # "none" <=> (svc.closed_date \/ outside \/ in_tail)

\* a 4xx answer on the orders endpoint that is not the insufficient-funds one
OrderEndpoint4xx ==
    /\ svc.op = "request" /\ svc.done /\ svc.is_order_endpoint
    /\ svc.status_code >= 400 /\ svc.status_code < 500
    /\ ~(svc.status_code = 400 /\ svc.error_code = "InsufficientFunds")

\* C35 as stated: every 4xx broker response on an order-placement endpoint,
\* other than the insufficient-funds case, is raised by request as
\* OrderPlacementError with the status code, the broker details and the
\* order payload.
C35_Every4xxIsOrderPlacementError ==
    OrderEndpoint4xx =>
        /\ svc.raised = "OrderPlacement"
        /\ svc.carried = {"status_code", "saxo_error_details", "order_details"}

\* C35: a 4xx broker response on an order-placement endpoint, other than the
\* insufficient-funds case, is raised as OrderPlacementError with the status
\* code, the broker details and the order payload exactly when its status is
\* 400, 403 or 409 or its body has an ErrorCode; otherwise it is raised as
\* TokenAuthenticationException (401) or SaxoApiError.
C35_OrderPlacementErrorByStatusOrCode ==
    OrderEndpoint4xx =>
        IF svc.status_code \in {400, 403, 409} \/ svc.error_code # "none"
        THEN /\ svc.raised = "OrderPlacement"
             /\ svc.carried = {"status_code", "saxo_error_details", "order_details"}
        ELSE svc.raised = IF svc.status_code = 401 THEN "Token" ELSE "SaxoApi"

C35_NotFoundWithoutCode ==
    /\ OrderEndpoint4xx
    /\ svc.status_code = 404 /\ svc.error_code = "none" /\ svc.raised = "SaxoApi"

\* the number of sleeps of the bid-availability loop so far
Sleeps == Cardinality({i \in 1..Len(ft.attempts) : ft.attempts[i].slept})

\* C36: the bid-availability loop performs at most max_retries quote fetches
\* and then terminates on every path; it sleeps only between attempts and
\* never after the last one, so an exhausted loop of n fetches performed
\* exactly n - 1 sleeps.
C36_BoundedFetchesSleepsBetween ==
    /\ [](Len(ft.attempts) <= max_bid_retries)
    /\ [](\A i \in 1..Len(ft.attempts) : ft.attempts[i].slept => i < max_bid_retries)
    /\ []((PastBidLoop /\ ft.attempts # <<>>)
             => ~ft.attempts[Len(ft.attempts)].slept)
    /\ []((PastBidLoop /\ ft.bid_retries = max_bid_retries)
             => Len(ft.attempts) = max_bid_retries /\ Sleeps = max_bid_retries - 1)
    /\ (ft.pc = "bid_loop") ~> PastBidLoop

C36_ExhaustedLoop ==
    /\ PastBidLoop /\ ft.bid_retries = max_bid_retries /\ ft.bid_data_missing
    /\ Len(ft.attempts) = max_bid_retries
    /\ Sleeps = max_bid_retries - 1

\* C37: if the InfoPrices fetch of find_turbos keeps failing with transport
\* errors through all of its internal attempts, find_turbos raises the typed
\* ApiRequestException, not an untyped exception.
C37_TransportFailureRaisesApiRequest ==
    (ft.attempts # <<>> /\ ft.attempts[Len(ft.attempts)].kind = "RetryError")
        => ft.pc = "raised" /\ ft.raised = "ApiRequest"

\* a call of the constructor or of request has just obtained a token
TokenObtained ==
    /\ svc.op = "SaxoApiClient"
    /\ svc'.calls = svc.calls + 1
    /\ svc'.last.latest_token # "none"

\* C38: over any sequence of requests and token values returned by the token
\* provider, the transport handle used for a request was created with the
\* most recent token value; the handle is re-created exactly when the token
\* differs from the one it was created with (or no handle exists) and is
\* reused otherwise.
C38_HandleFollowsToken ==
    /\ []((svc.op = "SaxoApiClient" /\ svc.last.outcome = "forwarded")
            => /\ svc.last.used = svc.instance /\ svc.instance > 0
               /\ svc.access_token = svc.last.latest_token)
    /\ [][TokenObtained =>
            IF svc.instance = 0 \/ svc'.last.latest_token # svc.access_token
            THEN svc'.instance = svc.instance + 1
                 /\ svc'.access_token = svc'.last.latest_token
            ELSE svc'.instance = svc.instance
                 /\ svc'.access_token = svc.access_token]_vars

C38_RecreatedThenReused ==
    /\ svc.op = "SaxoApiClient" /\ svc.calls = 4
    /\ svc.instance = 2 /\ svc.access_token = "token2"
    /\ svc.last.outcome = "forwarded" /\ svc.last.used = 2

\* C39: a ledger position is set to Closed only on evidence from the broker:
\* every write of status Closed, by the immediate update or by applying a sync
\* update, happens after the broker's closed-positions list contained an entry
\* whose opening position id is that of the position; placing a closing order
\* alone never marks the position Closed.
C39_ClosedOnlyOnBrokerEvidence ==
    /\ [](\A p \in Ids :
             ledgerPos[p].status = "Closed" => bPos[p] \in {"closed", "gone"})
    /\ [][\A p \in Ids :
             (ledgerPos[p].status # "Closed" /\ ledgerPos'[p].status = "Closed") =>
                 \/ pc \in {"cm_fetch", "perf_fetch"} /\ p = Head(todo) /\ bPos[p] = "closed"
                 \/ pc = "sync_apply" /\ p = Head(todo) /\ p \in syncRun.updates]_vars
    /\ [][(Len(closeLog') > Len(closeLog)) => ledgerPos' = ledgerPos]_vars

C39_OrderAloneLeavesOpen ==
    /\ pc = "idle"
    /\ \E p, q \in Ids :
          /\ ledgerPos[p].status = "Closed" /\ bPos[p] = "closed"
          /\ ledgerPos[q].status = "Open" /\ closeOrders[q] > 0 /\ bPos[q] = "open"

\* C40: within one execute_trade_signal call, cancel_order is invoked at most
\* once for the placed order: once inside find_position_by_order_id_with_retry
\* on retry exhaustion, after which the orchestrator does not cancel again, or
\* once by the orchestrator for another failure before a position is
\* confirmed; it is never invoked when no order was placed.
C40_CancelAtMostOncePerOrder ==
    /\ [](\A i \in 1..Len(cancels) :
             /\ cancels[i].order \in Ids /\ bOrders[cancels[i].order] # "none"
             /\ \A j \in 1..Len(cancels) : cancels[j].order = cancels[i].order => j = i)
    /\ [][(Len(cancels') > Len(cancels)) =>
            /\ placed # 0 /\ confirmed = 0
            /\ cancels' = Append(cancels, cancels'[Len(cancels')])
            /\ cancels'[Len(cancels')].order = placed
            /\ \/ pc = "retry_error" /\ polls = DEFAULT_RETRY_ATTEMPTS
                    /\ raised' = "PositionNotFound"
               \/ pc = "except_clause" /\ pending # "PositionNotFound"]_vars

\* the budget ran out, the one cancellation was refused and the error went
\* through the orchestrator to the callback, which ended the process
C40_ExhaustedCancelledOnce ==
    /\ raised = "PositionNotFound" /\ ~running
    /\ polls = DEFAULT_RETRY_ATTEMPTS /\ placed # 0
    /\ cancels = <<[order |-> placed, result |-> FALSE]>>

====
